---- MODULE Spec2Model ----
(***************************************************************************)
(* Model of the k6 load-test harness src/benchmark/benchmark.js:           *)
(*   - parseBody, the response decoder (plain JSON or event stream),       *)
(*   - mcpPost / mcpSession, one MCP session                               *)
(*     (initialize -> notifications/initialized -> tools/call -> DELETE),  *)
(*   - the default function run by every virtual user (four scenario       *)
(*     sessions, one tools/list session, think time),                      *)
(*   - the custom metrics the sessions feed.                               *)
(*                                                                         *)
(* A text is a sequence of symbols.  A symbol is a character ("{", "d",    *)
(* SP, LF, ...) or a whole JSON lexeme: a number ("55"), a literal         *)
(* ("null") or a string literal (written with its quotes, "\"result\"").   *)
(* A string literal holds no raw line break and starts with a quote, so    *)
(* trim, split, startsWith and substring act on symbols as they act on     *)
(* characters.                                                             *)
(***************************************************************************)
EXTENDS Integers, Sequences, FiniteSets

VARIABLES
    \* ---- the response decoder on its own (SpecParse)
    body,           \* the argument of parseBody: [present, text]
    parsed,         \* what parseBody returned
    ppc,            \* "ready" before the call, "done" after it, "checked" after
                    \* a scenario's predicate was applied to the outcome
    checked,        \* the predicate applied and what it evaluated to
    \* ---- the virtual users
    pc,             \* pc[v]: the next blocking step of virtual user v
    iter,           \* iter[v]: iterations of the default function started
    tool,           \* tool[v]: index into TOOLS; ListIdx is the tools/list session
    sessionId,      \* sessionId[v]: the const sessionId of the running session
    callResult,     \* callResult[v]: decoded body of the tools/call (tools/list) response
    clock,          \* clock[v]: wall clock of v in ticks, since the last whole ms before the session
    start,          \* start[v]: Date.now() at line 92, in ms
    initDur,        \* initDur[v]: initRes.timings.duration, in ticks
    callDur,        \* callDur[v]: callRes.timings.duration, in ticks
    totalDuration,  \* totalDuration[v]: line 117, in ms
    \* ---- k6 metrics (shared by all virtual users)
    mcpRequests,    \* Counter mcp_requests
    mcpErrors,      \* Counter mcp_errors
    mcpErrorRate,   \* Rate mcp_error_rate: [trues, total]
    trend,          \* the Trends: name -> number of samples added
    checks,         \* k6 built-in Rate "checks": [passes, fails]
    httpReqs,       \* k6 built-in Counter http_reqs
    httpFailed,     \* k6 built-in Rate http_req_failed: number of failed requests
    \* ---- history of the running session (auxiliary)
    sent,           \* sent[v]: the requests of v's running session, in order
    initOutcome,    \* initOutcome[v]: the response to initialize
    callHeader,     \* callHeader[v]: Mcp-Session-Id header of the tools/call response
    delOutcome,     \* delOutcome[v]: outcome of the DELETE ("none" when not sent)
    atCall,         \* atCall[v]: what the session had decided when tools/call returned,
                    \* and the HTTP status of that response (0: none arrived)
    marked,         \* marked[v]: the sample v's session added to mcp_error_rate
    lastCheck,      \* lastCheck[v]: the result of the check() of v's session
    recorded,       \* recorded[v]: the samples v's session added to the Trends
    ran,            \* ran[v]: the sessions v has started in its running iteration, by name
    \* ---- the end of the run (k6's executor and end-of-test processing)
    stopping,       \* the stages have elapsed: the executor starts no more iterations
    verdict,        \* the thresholds: "pending" during the run, then "passed" or "failed"
    summary,        \* what handleSummary returned, NoSummary before
    \* ---- the orchestrator run_benchmark.sh
    opc,            \* the step the script is at
    tgt,            \* index of the target of the for loop of main
    running,        \* the server containers that are up
    elapsed,        \* elapsed of wait_for_health
    sampler,        \* the targets whose stats collector process is alive
    load,           \* the target k6 is running against, "none" otherwise
    steps,          \* steps[t]: what benchmark_server has done for target t, in order
    mainLog,        \* what main has done, in order
    probed,         \* the probes wait_for_health sent in its last round, in order,
                    \* each with whether it was answered
    \* ---- the tools of the target servers (Go, Node.js, Java)
    treq,           \* the tools/call the servers are given: [tool, arg]
    tres,           \* tres[s]: what server s returned for it, Pending before
    \* ---- the Node.js server: the handler of POST /mcp (index.js 150-170)
    hpc,            \* hpc[r]: where the handler of request r stands
    conn,           \* conn[r]: the JSON-RPC id of r and the transport and the server
                    \* instance its handler constructed
    created,        \* the number of objects constructed so far
    routes,         \* routes[t][i]: the request whose HTTP response transport t
                    \* holds for JSON-RPC id i, 0 if none
    closedObj,      \* the transports and server instances that were closed
    resp,           \* resp[r]: the HTTP response of r: what was written to it,
                    \* whether it closed, its 'close' listener
    \* ---- the Consolidator (consolidate.py, called at run_benchmark.sh 222)
    dir,            \* the results directory: the artifacts of every target and the
                    \* combined report, once written
    reports         \* the combined reports the runs of the Consolidator emitted, in order

parseVars == <<body, parsed, ppc, checked>>
vuVars == <<pc, iter, tool, sessionId, callResult, clock, start, initDur, callDur,
            totalDuration>>
metricVars == <<mcpRequests, mcpErrors, mcpErrorRate, trend, checks, httpReqs, httpFailed>>
auxVars == <<sent, initOutcome, callHeader, delOutcome, atCall, marked, lastCheck, recorded,
             ran>>
endVars == <<stopping, verdict, summary>>
orchVars == <<opc, tgt, running, elapsed, probed, sampler, load, steps, mainLog>>
toolVars == <<treq, tres>>
nodeVars == <<hpc, conn, created, routes, closedObj, resp>>
dirVars == <<dir, reports>>
vars == <<parseVars, vuVars, metricVars, auxVars, endVars, orchVars, toolVars, nodeVars, dirVars>>

----------------------------------------------------------------------------
(* Bounds of the model *)

NumVUs == 2         \* virtual users of the concurrent specification
MaxIter == 1        \* iterations of the default function per virtual user
MaxReqs == 2        \* POST /mcp requests the Node.js server is sent
MaxLines == 3       \* lines of a body handed to parseBody in SpecParse
MaxWall == 2        \* longest wall time of one request, in ticks
TicksPerMs == 3     \* clock resolution: ticks in one millisecond of Date.now()

----------------------------------------------------------------------------
(* Symbols and string primitives *)

SP == " "
LF == "LF"
CR == "CR"
DataMarker == <<"d", "a", "t", "a", ":">>

\* String.prototype.trim strips white space and line terminators
IsWs(c) == c \in {SP, LF, CR}

RECURSIVE TrimStart(_)
TrimStart(s) == IF s # <<>> /\ IsWs(Head(s)) THEN TrimStart(Tail(s)) ELSE s

RECURSIVE TrimEnd(_)
TrimEnd(s) == IF s # <<>> /\ IsWs(s[Len(s)]) THEN TrimEnd(SubSeq(s, 1, Len(s) - 1)) ELSE s

Trim(s) == TrimEnd(TrimStart(s))

StartsWith(s, p) == Len(s) >= Len(p) /\ SubSeq(s, 1, Len(p)) = p

\* s.substring(n)
Substring(s, n) == SubSeq(s, n + 1, Len(s))

\* text.split('\n'): the pieces between line feeds (never an empty list)
RECURSIVE SplitFrom(_, _, _)
SplitFrom(s, i, cur) ==
    IF i > Len(s) THEN <<cur>>
    ELSE IF s[i] = LF THEN <<cur>> \o SplitFrom(s, i + 1, <<>>)
    ELSE SplitFrom(s, i + 1, Append(cur, s[i]))

Split(s) == SplitFrom(s, 1, <<>>)

----------------------------------------------------------------------------
(* JavaScript values, as far as JSON produces them.  Every value is a      *)
(* record of the same shape: t is the type tag, n the number (or 0/1 of a  *)
(* boolean), s the string literal, kv the members of an object in source   *)
(* order, el the elements of an array.                                     *)

Val(t, n, s, kv, el) == [t |-> t, n |-> n, s |-> s, kv |-> kv, el |-> el]
VUndef == Val("undefined", 0, "", <<>>, <<>>)
VNull == Val("null", 0, "", <<>>, <<>>)
VThrow == Val("throw", 0, "", <<>>, <<>>)      \* an exception instead of a value
VBool(b) == Val("boolean", IF b THEN 1 ELSE 0, "", <<>>, <<>>)
VNum(n) == Val("number", n, "", <<>>, <<>>)
VStr(s) == Val("string", 0, s, <<>>, <<>>)
VObj(kv) == Val("object", 0, "", kv, <<>>)
VArr(el) == Val("array", 0, "", <<>>, el)

EmptyString == "\"\""

\* the lexemes of the model's JSON
NumLex == {"0", "1", "2", "54", "55"}
NumVal(c) == CASE c = "0" -> 0 [] c = "1" -> 1 [] c = "2" -> 2 [] c = "54" -> 54
               [] c = "55" -> 55 [] OTHER -> 0
StrLex == {EmptyString, "\"a\"", "\"b\"", "\"result\"", "\"error\"", "\"content\"",
           "\"text\"", "\"tools\"", "\"code\"", "\"id\"", "\"name\"",
           "\"transformed_data\"", "\"BENCHMARK\"", "\"benchmark\"",
           "\"<good>\"", "\"<wrong>\"", "\"<notjson>\"", "\"55\"", "\"null\"",
           "\"<fib>\"", "\"<fibstring>\"", "\"<name>\"", "\"<flat>\"", "\"<tdnull>\"",
           "\"<empty>\"", "\"<list>\""}

\* ToBoolean
Truthy(v) ==
    CASE v.t \in {"undefined", "null"} -> FALSE
      [] v.t = "boolean" -> v.n = 1
      [] v.t = "number" -> v.n # 0
      [] v.t = "string" -> v.s # EmptyString
      [] OTHER -> TRUE

\* the string literal that spells a property name
Lit(name) ==
    CASE name = "result" -> "\"result\""
      [] name = "error" -> "\"error\""
      [] name = "content" -> "\"content\""
      [] name = "text" -> "\"text\""
      [] name = "tools" -> "\"tools\""
      [] name = "transformed_data" -> "\"transformed_data\""
      [] name = "name" -> "\"name\""
      [] OTHER -> EmptyString

\* o[key] for a property name: the last member of that name wins, as in JSON.parse;
\* reading a property of undefined or null throws
RECURSIVE Lookup(_, _, _)
Lookup(kv, key, i) ==
    IF i = 0 THEN VUndef
    ELSE IF kv[i][1] = key THEN kv[i][2]
    ELSE Lookup(kv, key, i - 1)

Get(o, key) ==
    CASE o.t \in {"undefined", "null", "throw"} -> VThrow
      [] o.t = "object" -> Lookup(o.kv, Lit(key), Len(o.kv))
      [] OTHER -> VUndef

\* o[0]
Index0(o) ==
    CASE o.t \in {"undefined", "null", "throw"} -> VThrow
      [] o.t = "array" -> IF o.el = <<>> THEN VUndef ELSE o.el[1]
      [] OTHER -> VUndef

----------------------------------------------------------------------------
(* JSON.parse on a text: [ok, val].  ok = FALSE is the SyntaxError.        *)

RECURSIVE SkipWs(_, _)
SkipWs(s, i) == IF i <= Len(s) /\ IsWs(s[i]) THEN SkipWs(s, i + 1) ELSE i

ParseFail == [ok |-> FALSE, val |-> VUndef, pos |-> 0]
ParseOk(v, p) == [ok |-> TRUE, val |-> v, pos |-> p]

RECURSIVE ParseValue(_, _), ParseMembers(_, _, _), ParseElements(_, _, _)

\* a value starting at or after position i; pos is the position after it
ParseValue(s, i) ==
    LET j == SkipWs(s, i) IN
    IF j > Len(s) THEN ParseFail
    ELSE LET c == s[j] IN
        CASE c = "{" ->
                LET k == SkipWs(s, j + 1) IN
                IF k <= Len(s) /\ s[k] = "}" THEN ParseOk(VObj(<<>>), k + 1)
                ELSE ParseMembers(s, k, <<>>)
          [] c = "[" ->
                LET k == SkipWs(s, j + 1) IN
                IF k <= Len(s) /\ s[k] = "]" THEN ParseOk(VArr(<<>>), k + 1)
                ELSE ParseElements(s, k, <<>>)
          [] c \in NumLex -> ParseOk(VNum(NumVal(c)), j + 1)
          [] c \in StrLex -> ParseOk(VStr(c), j + 1)
          [] c = "null" -> ParseOk(VNull, j + 1)
          [] c = "true" -> ParseOk(VBool(TRUE), j + 1)
          [] c = "false" -> ParseOk(VBool(FALSE), j + 1)
          [] OTHER -> ParseFail

\* the members of an object from the key at position i on
ParseMembers(s, i, acc) ==
    IF i > Len(s) \/ s[i] \notin StrLex THEN ParseFail
    ELSE LET c == SkipWs(s, i + 1) IN
        IF c > Len(s) \/ s[c] # ":" THEN ParseFail
        ELSE LET r == ParseValue(s, c + 1) IN
            IF ~r.ok THEN ParseFail
            ELSE LET n == SkipWs(s, r.pos)
                     acc2 == Append(acc, <<s[i], r.val>>) IN
                IF n > Len(s) THEN ParseFail
                ELSE IF s[n] = "}" THEN ParseOk(VObj(acc2), n + 1)
                ELSE IF s[n] = "," THEN ParseMembers(s, SkipWs(s, n + 1), acc2)
                ELSE ParseFail

\* the elements of an array from position i on
ParseElements(s, i, acc) ==
    LET r == ParseValue(s, i) IN
    IF ~r.ok THEN ParseFail
    ELSE LET n == SkipWs(s, r.pos)
             acc2 == Append(acc, r.val) IN
        IF n > Len(s) THEN ParseFail
        ELSE IF s[n] = "]" THEN ParseOk(VArr(acc2), n + 1)
        ELSE IF s[n] = "," THEN ParseElements(s, n + 1, acc2)
        ELSE ParseFail

JSONparse(s) ==
    LET r == ParseValue(s, 1) IN
    IF r.ok /\ SkipWs(s, r.pos) > Len(s) THEN [ok |-> TRUE, val |-> r.val]
    ELSE [ok |-> FALSE, val |-> VUndef]

----------------------------------------------------------------------------
(* parseBody (benchmark.js 39-63) *)

NoResult == VNull

\* faulty variant of OpensJson: only an object is tried as plain JSON
OpensJsonObjectOnly(text) == StartsWith(text, <<"{">>)

\* line 46: text.startsWith('{') || text.startsWith('[')
OpensJson(text) == StartsWith(text, <<"{">>) \/ StartsWith(text, <<"[">>)

\* lines 55-56: the payload of a data: line, to be parsed when it starts with '{'
Payload(trimmed) == Trim(Substring(trimmed, 5))

\* faulty variant of SseScan: gives up at the first data: line that does not parse
RECURSIVE SseScanStopAtFirstData(_, _)
SseScanStopAtFirstData(lines, i) ==
    IF i > Len(lines) THEN NoResult
    ELSE LET trimmed == Trim(lines[i]) IN
        IF StartsWith(trimmed, DataMarker)
        THEN IF StartsWith(Payload(trimmed), <<"{">>) /\ JSONparse(Payload(trimmed)).ok
             THEN JSONparse(Payload(trimmed)).val
             ELSE NoResult
        ELSE SseScanStopAtFirstData(lines, i + 1)

\* lines 52-60: the loop over the lines from line i on
RECURSIVE SseScan(_, _)
SseScan(lines, i) ==
    IF i > Len(lines) THEN NoResult
    ELSE LET trimmed == Trim(lines[i]) IN
        IF StartsWith(trimmed, DataMarker)
           /\ Payload(trimmed) # <<>>
           /\ StartsWith(Payload(trimmed), <<"{">>)
           /\ JSONparse(Payload(trimmed)).ok
        THEN JSONparse(Payload(trimmed)).val
        ELSE SseScan(lines, i + 1)

\* faulty variant of parseBody: the plain JSON.parse is not guarded by try/catch
parseBodyUncaught(b) ==
    IF ~b.present \/ b.text = <<>> THEN NoResult
    ELSE LET text == Trim(b.text) IN
        IF text = <<>> THEN NoResult
        ELSE IF OpensJson(text)
             THEN (IF JSONparse(text).ok THEN JSONparse(text).val ELSE VThrow)
        ELSE SseScan(Split(text), 1)

parseBody(b) ==
    IF ~b.present \/ b.text = <<>> THEN NoResult                \* line 41: !body
    ELSE LET text == Trim(b.text) IN
        IF text = <<>> THEN NoResult                            \* line 43
        ELSE IF OpensJson(text) /\ JSONparse(text).ok           \* lines 46-48
             THEN JSONparse(text).val
        ELSE SseScan(Split(text), 1)                            \* lines 51-62

----------------------------------------------------------------------------
(* The scenarios (benchmark.js 138-175) and their validation predicates *)

TOOLS == <<
    [name |-> "calculate_fibonacci", metric |-> "mcp_fibonacci_duration",
     checkName |-> "fibonacci ok"],
    [name |-> "fetch_external_data", metric |-> "mcp_fetch_duration",
     checkName |-> "fetch ok"],
    [name |-> "process_json_data", metric |-> "mcp_json_process_duration",
     checkName |-> "json_process ok"],
    [name |-> "simulate_database_query", metric |-> "mcp_db_query_duration",
     checkName |-> "db_query ok"] >>

\* the tools/list session of the default function comes after the scenarios
ListIdx == Len(TOOLS) + 1

TrendNames == {TOOLS[i].metric : i \in 1..Len(TOOLS)}
                \cup {"mcp_initialize_duration", "mcp_tools_list_duration",
                      "mcp_full_session_duration"}

\* the characters inside a string literal, as a text
TextOf(lex) ==
    CASE lex = EmptyString -> <<>>
      [] lex = "\"<good>\"" ->
            <<"{", "\"result\"", ":", "55", ",", "\"transformed_data\"", ":",
              "{", "\"name\"", ":", "\"BENCHMARK\"", "}", "}">>
      [] lex = "\"<wrong>\"" ->
            <<"{", "\"result\"", ":", "54", ",", "\"transformed_data\"", ":",
              "{", "\"name\"", ":", "\"benchmark\"", "}", "}">>
      [] lex = "\"55\"" -> <<"55">>
      [] lex = "\"null\"" -> <<"null">>
      [] lex = "\"<fib>\"" -> <<"{", "\"result\"", ":", "55", "}">>
      [] lex = "\"<fibstring>\"" -> <<"{", "\"result\"", ":", "\"55\"", "}">>
      [] lex = "\"<name>\"" ->
            <<"{", "\"transformed_data\"", ":", "{", "\"name\"", ":", "\"BENCHMARK\"", "}", "}">>
      [] lex = "\"<flat>\"" ->
            <<"{", "\"transformed_data\"", ":", "\"BENCHMARK\"", ",", "\"name\"", ":",
              "\"BENCHMARK\"", "}">>
      [] lex = "\"<tdnull>\"" -> <<"{", "\"transformed_data\"", ":", "null", "}">>
      [] lex = "\"<empty>\"" -> <<"{", "}">>
      [] lex = "\"<list>\"" ->
            <<"[", "{", "\"result\"", ":", "55", ",", "\"transformed_data\"", ":",
              "{", "\"name\"", ":", "\"BENCHMARK\"", "}", "}", "]">>
      [] OTHER -> <<"x">>

\* JSON.parse(v) of a value: the argument is converted to a string first
RECURSIVE ParseCoerced(_)
ParseCoerced(v) ==
    CASE v.t = "string" -> JSONparse(TextOf(v.s))
      [] v.t \in {"number", "boolean", "null"} -> [ok |-> TRUE, val |-> v]
      [] v.t = "array" /\ Len(v.el) = 1 /\ v.el[1].t \notin {"null", "undefined"} ->
            ParseCoerced(v.el[1])
      [] OTHER -> [ok |-> FALSE, val |-> VUndef]

\* JSON.parse(r.result.content[0].text): VThrow stands for any exception
ParsedText(r) ==
    LET text == Get(Index0(Get(Get(r, "result"), "content")), "text") IN
    IF text.t = "throw" \/ ~ParseCoerced(text).ok THEN VThrow
    ELSE ParseCoerced(text).val

HasContent(r) ==
    Truthy(r) /\ Truthy(Get(r, "result")) /\ Truthy(Get(Get(r, "result"), "content"))

\* lines 144-148
fibCheck(r) ==
    IF ~HasContent(r) THEN FALSE
    ELSE Get(ParsedText(r), "result") = VNum(55)

\* lines 162-166
jsonCheck(r) ==
    IF ~HasContent(r) THEN FALSE
    ELSE Get(Get(ParsedText(r), "transformed_data"), "name") = VStr("\"BENCHMARK\"")

\* lines 155 and 173
contentCheck(r) == HasContent(r)

\* faulty variant of Caught: the try block has no catch, the exception gets out
Uncaught(v) == v

\* try { return ... } catch { return false; }
Caught(v) == IF v.t = "throw" THEN VBool(FALSE) ELSE v

\* a === b of two values read from a decoded payload, an exception in either
\* operand being the outcome
StrictEq(a, b) == IF a.t = "throw" \/ b.t = "throw" THEN VThrow ELSE VBool(a = b)

\* lines 144-148 as the value the arrow function gives, VThrow for an exception
\* that leaves it
fibCheckValue(r) ==
    IF ~Truthy(r) THEN VBool(FALSE)
    ELSE IF ~Truthy(Get(r, "result")) THEN VBool(FALSE)
    ELSE IF ~Truthy(Get(Get(r, "result"), "content")) THEN VBool(FALSE)
    ELSE Caught(StrictEq(Get(ParsedText(r), "result"), VNum(55)))

\* faulty variant of jsonCheckValue: name is read from the decoded text itself
jsonCheckValueTopName(r) ==
    IF ~Truthy(r) THEN VBool(FALSE)
    ELSE IF ~Truthy(Get(r, "result")) THEN VBool(FALSE)
    ELSE IF ~Truthy(Get(Get(r, "result"), "content")) THEN VBool(FALSE)
    ELSE Caught(StrictEq(Get(ParsedText(r), "name"), VStr("\"BENCHMARK\"")))

\* lines 162-166 in the same way
jsonCheckValue(r) ==
    IF ~Truthy(r) THEN VBool(FALSE)
    ELSE IF ~Truthy(Get(r, "result")) THEN VBool(FALSE)
    ELSE IF ~Truthy(Get(Get(r, "result"), "content")) THEN VBool(FALSE)
    ELSE Caught(StrictEq(Get(Get(ParsedText(r), "transformed_data"), "name"),
                         VStr("\"BENCHMARK\"")))

\* lines 155 and 173 as a value: r && r.result && r.result.content
contentCheckValue(r) ==
    IF ~Truthy(r) THEN r
    ELSE IF ~Truthy(Get(r, "result")) THEN Get(r, "result")
    ELSE Get(Get(r, "result"), "content")

\* tool.check(r) of the i-th scenario as a value
ToolCheckValue(i, r) ==
    CASE i = 1 -> fibCheckValue(r)
      [] i = 3 -> jsonCheckValue(r)
      [] OTHER -> contentCheckValue(r)

\* line 214
listCheck(r) ==
    Truthy(r) /\ Truthy(Get(r, "result")) /\ Truthy(Get(Get(r, "result"), "tools"))

\* tool.check of the i-th scenario
ToolCheck(i, r) ==
    CASE i = 1 -> fibCheck(r)
      [] i = 3 -> jsonCheck(r)
      [] i \in {2, 4} -> contentCheck(r)
      [] OTHER -> listCheck(r)

\* faulty variant of isError: the test of the result field is missing
isErrorResultUntested(cr) == ~Truthy(cr) \/ Truthy(Get(cr, "error"))

\* faulty variant of isError: a result without content counts as an error too
isErrorOrNoContent(cr) ==
    \/ ~Truthy(cr) \/ Truthy(Get(cr, "error")) \/ ~Truthy(Get(cr, "result"))
    \/ ~Truthy(Get(Get(cr, "result"), "content"))

\* line 126: !callResult || callResult.error || !callResult.result
isError(cr) == ~Truthy(cr) \/ Truthy(Get(cr, "error")) \/ ~Truthy(Get(cr, "result"))

----------------------------------------------------------------------------
(* The target server, a black box: what it may answer *)

\* session tokens; NoTok is "no Mcp-Session-Id header" (null in the script)
NoTok == [vu |-> 0, it |-> 0, tl |-> 0]
\* the token the target issues to the session v is running: unique per session
FreshToken(v) == [vu |-> v, it |-> iter[v], tl |-> tool[v]]
\* a second token of the same session, sent on a later response
RotatedToken(v) == [vu |-> v, it |-> iter[v], tl |-> 0]

Absent == [present |-> FALSE, text |-> <<>>]
Text(t) == [present |-> TRUE, text |-> t]

GoodResult == <<"{", "\"content\"", ":", "[", "{", "\"text\"", ":", "\"<good>\"", "}",
                "]", "}">>
WrongResult == <<"{", "\"content\"", ":", "[", "{", "\"text\"", ":", "\"<wrong>\"", "}",
                 "]", "}">>
ErrorObject == <<"{", "\"code\"", ":", "1", "}">>

\* response bodies by kind
BodyOf(kind) ==
    CASE kind = "good" -> Text(<<"{", "\"result\"", ":">> \o GoodResult \o <<"}">>)
      [] kind = "sse_good" -> Text(<<"e", LF>> \o DataMarker
                                   \o <<SP, "{", "\"result\"", ":">> \o GoodResult
                                   \o <<"}", LF, LF>>)
      [] kind = "wrong" -> Text(<<"{", "\"result\"", ":">> \o WrongResult \o <<"}">>)
      [] kind = "nocontent" -> Text(<<"{", "\"result\"", ":", "{", "}", "}">>)
      [] kind = "tools" -> Text(<<"{", "\"result\"", ":", "{", "\"tools\"", ":", "[",
                                  "]", "}", "}">>)
      [] kind = "error" -> Text(<<"{", "\"error\"", ":">> \o ErrorObject \o <<"}">>)
      [] kind = "error_and_result" ->
            Text(<<"{", "\"result\"", ":">> \o GoodResult
                 \o <<",", "\"error\"", ":">> \o ErrorObject \o <<"}">>)
      [] kind = "error_null" ->
            Text(<<"{", "\"result\"", ":">> \o GoodResult
                 \o <<",", "\"error\"", ":", "null", "}">>)
      [] kind = "noresult" -> Text(<<"{", "\"id\"", ":", "2", "}">>)
      [] kind = "result_null" -> Text(<<"{", "\"result\"", ":", "null", "}">>)
      [] kind = "garbage" -> Text(<<"x">>)
      [] kind = "error_page" -> Text(<<"x">>)  \* the text body of an HTTP 500 answer
      [] kind = "empty" -> Text(<<>>)
      [] OTHER -> Absent                      \* "transport": no response at all

\* the HTTP status of a response kind; 0 is a transport failure (timeout, refused)
StatusOf(kind) ==
    CASE kind \in {"transport", "timeout", "connfail"} -> 0
      [] kind \in {"non2xx", "error_page"} -> 500
      [] OTHER -> 200

\* faulty variant of Failed: a request without a response is not counted
FailedWithResponse(kind) == IF StatusOf(kind) >= 400 THEN 1 ELSE 0

\* k6 counts a request as failed when its status is not in 200..399
Failed(kind) == IF StatusOf(kind) >= 200 /\ StatusOf(kind) <= 399 THEN 0 ELSE 1

\* decoded bodies, computed once
AllKinds == {"good", "sse_good", "wrong", "nocontent", "tools", "error",
             "error_and_result", "error_null", "noresult", "result_null", "garbage",
             "empty", "transport"}
Decoded == [k \in AllKinds \cup {"error_page"} |-> parseBody(BodyOf(k))]

\* the Mcp-Session-Id header of the response to initialize
InitKinds == {"ok", "notoken", "undecodable", "protoerr", "transport"}
InitToken(kind, v) == IF kind \in {"ok", "undecodable"} THEN FreshToken(v) ELSE NoTok
InitBodyKind(kind) ==
    CASE kind \in {"ok", "notoken"} -> "good"
      [] kind = "undecodable" -> "garbage"
      [] kind = "protoerr" -> "error"
      [] OTHER -> "transport"

----------------------------------------------------------------------------
(* Metrics (k6 Counter, Rate, Trend) *)

\* Trend.add(x): one more sample (the value is kept in recorded)
TrendAdd(tr, name) == [tr EXCEPT ![name] = @ + 1]

\* faulty variant of RateAdd: without the else branch of lines 130-132
RateAddOnlyTrue(r, b) ==
    [trues |-> r.trues + (IF b THEN 1 ELSE 0), total |-> r.total + (IF b THEN 1 ELSE 0)]

\* Rate.add(b)
RateAdd(r, b) == [trues |-> r.trues + (IF b THEN 1 ELSE 0), total |-> r.total + 1]

\* check(val, {name: predicate}): one sample of the built-in "checks" rate
CheckAdd(c, ok) == IF ok THEN [c EXCEPT !.passes = @ + 1] ELSE [c EXCEPT !.fails = @ + 1]

\* faulty variant of mcpRequestsAdd: every HTTP request is counted
mcpRequestsAddEvery(method) == 1

\* what a request of this method adds to mcp_requests: mcpPost counts (line 75),
\* the bare http.post of the notification and http.del do not
mcpRequestsAdd(method) ==
    IF method \in {"initialize", "tools/call", "tools/list"} THEN 1 ELSE 0

----------------------------------------------------------------------------
(* One session: mcpSession (84-135) and the tools/list block (194-220) *)

\* Date.now(), in whole milliseconds
DateNow(c) == c \div TicksPerMs

\* faulty variant of HeaderToken: the session id is kept in a place all virtual
\* users share, so v reads the one its neighbour wrote
HeaderTokenShared(v) == sessionId[(v % NumVUs) + 1]

\* faulty variant of HeaderToken: the session id of the latest response is kept
HeaderTokenLatest(v) == IF callHeader[v] # NoTok THEN callHeader[v] ELSE sessionId[v]

\* the Mcp-Session-Id header v attaches (lines 68-70, 106, 121): its own sessionId
HeaderToken(v) == sessionId[v]

\* res.timings.duration of a request that took w ticks of wall time: the time
\* spent sending, waiting and receiving, at most the wall time
Durations(w, exact) == IF exact THEN {w} ELSE 0..w

\* faulty variant of ScenarioName: the third and the second scenario change places
ScenarioNameSwapped(v) ==
    IF tool[v] = ListIdx THEN "tools/list"
    ELSE TOOLS[CASE tool[v] = 2 -> 3 [] tool[v] = 3 -> 2 [] OTHER -> tool[v]].name

\* the session v starts: tool.name of the loop (179-180), or the tools/list block
ScenarioName(v) == IF tool[v] = ListIdx THEN "tools/list" ELSE TOOLS[tool[v]].name

\* method of the third request
InvokeMethod(v) == IF tool[v] = ListIdx THEN "tools/list" ELSE "tools/call"

\* faulty variant of StepAfter: the notification is sent after the tool call
StepAfterReordered(step, sid, tl) ==
    CASE step = "initialize" -> "call"
      [] step = "call" -> "notify"
      [] step = "notify" -> IF sid # NoTok THEN "teardown"
                            ELSE IF tl = ListIdx THEN "sleep" ELSE "finish"
      [] step = "teardown" -> IF tl = ListIdx THEN "sleep" ELSE "finish"
      [] step = "finish" -> "next"
      [] OTHER -> "initialize"

\* faulty variant of StepAfter: a handshake that issued no token ends the session
StepAfterAbort(step, sid, tl) ==
    CASE step = "initialize" -> IF sid # NoTok THEN "notify"
                                ELSE IF tl = ListIdx THEN "sleep" ELSE "finish"
      [] step = "notify" -> "call"
      [] step = "call" -> IF sid # NoTok THEN "teardown"
                          ELSE IF tl = ListIdx THEN "sleep" ELSE "finish"
      [] step = "teardown" -> IF tl = ListIdx THEN "sleep" ELSE "finish"
      [] step = "finish" -> "next"
      [] OTHER -> "initialize"

\* faulty variant of StepAfter: the DELETE is sent whether or not a token is held
StepAfterAlwaysTeardown(step, sid, tl) ==
    CASE step = "initialize" -> "notify"
      [] step = "notify" -> "call"
      [] step = "call" -> "teardown"
      [] step = "teardown" -> IF tl = ListIdx THEN "sleep" ELSE "finish"
      [] step = "finish" -> "next"
      [] OTHER -> "initialize"

\* faulty variant of StepAfter: the session ends without its DELETE
StepAfterNoTeardown(step, sid, tl) ==
    CASE step = "initialize" -> "notify"
      [] step = "notify" -> "call"
      [] step = "call" -> IF tl = ListIdx THEN "sleep" ELSE "finish"
      [] step = "teardown" -> IF tl = ListIdx THEN "sleep" ELSE "finish"
      [] step = "finish" -> "next"
      [] OTHER -> "initialize"

\* faulty variant of StepAfter: the handshake is sent again until a token is issued
StepAfterRetry(step, sid, tl) ==
    CASE step = "initialize" -> IF sid # NoTok THEN "notify" ELSE "initialize"
      [] step = "notify" -> "call"
      [] step = "call" -> IF sid # NoTok THEN "teardown"
                          ELSE IF tl = ListIdx THEN "sleep" ELSE "finish"
      [] step = "teardown" -> IF tl = ListIdx THEN "sleep" ELSE "finish"
      [] step = "finish" -> "next"
      [] OTHER -> "initialize"

\* the step that follows a step of a session in program order; sid is the
\* session id the session holds, tl the index of its tool
StepAfter(step, sid, tl) ==
    CASE step = "initialize" -> "notify"                                \* 104
      [] step = "notify" -> "call"                                      \* 111
      [] step = "call" -> IF sid # NoTok THEN "teardown"                \* 120, 217
                          ELSE IF tl = ListIdx THEN "sleep" ELSE "finish"
      [] step = "teardown" -> IF tl = ListIdx THEN "sleep" ELSE "finish"
      [] step = "finish" -> "next"                                      \* 191
      [] OTHER -> "initialize"                                          \* 179, 195

\* faulty variant of SessionError: a failed DELETE fails the session
SessionErrorOrTeardown(v) == isError(callResult[v]) \/ delOutcome[v] \notin {"ok", "none"}

\* line 126 evaluated by v after the DELETE
SessionError(v) == isError(callResult[v])

\* the locals of a session go out of scope, the clock keeps its phase
NoRecord == [tool |-> 0, init |-> 0, call |-> 0, total |-> 0]
NoDecision == [err |-> FALSE, total |-> 0, init |-> 0, call |-> 0, status |-> 0]

EndOfScope(v) ==
    /\ sessionId' = [sessionId EXCEPT ![v] = NoTok]
    /\ callResult' = [callResult EXCEPT ![v] = VNull]
    /\ start' = [start EXCEPT ![v] = 0]
    /\ initDur' = [initDur EXCEPT ![v] = 0]
    /\ callDur' = [callDur EXCEPT ![v] = 0]
    /\ totalDuration' = [totalDuration EXCEPT ![v] = 0]
    /\ clock' = [clock EXCEPT ![v] = @ % TicksPerMs]
    /\ sent' = [sent EXCEPT ![v] = <<>>]
    /\ initOutcome' = [initOutcome EXCEPT ![v] = "none"]
    /\ callHeader' = [callHeader EXCEPT ![v] = NoTok]
    /\ delOutcome' = [delOutcome EXCEPT ![v] = "none"]
    /\ atCall' = [atCall EXCEPT ![v] = NoDecision]
    /\ marked' = [marked EXCEPT ![v] = FALSE]
    /\ lastCheck' = [lastCheck EXCEPT ![v] = FALSE]
    /\ recorded' = [recorded EXCEPT ![v] = NoRecord]

\* 1. initialize: mcpPost(..., null)
Initialize(v, kinds, walls, exact) ==
    /\ pc[v] = "initialize"
    /\ \E k \in kinds, w \in walls :
       \E d \in Durations(w, exact) :
        /\ start' = [start EXCEPT ![v] = DateNow(clock[v])]                  \* 92
        /\ sent' = [sent EXCEPT ![v] = Append(@, [m |-> "initialize", sid |-> NoTok])]
        /\ clock' = [clock EXCEPT ![v] = @ + w]
        /\ httpReqs' = httpReqs + 1
        /\ httpFailed' = httpFailed + Failed(InitBodyKind(k))
        /\ mcpRequests' = mcpRequests + mcpRequestsAdd("initialize")         \* 75
        \* line 78: res.headers['Mcp-Session-Id'] || sessionId, sessionId being null
        /\ sessionId' = [sessionId EXCEPT ![v] = InitToken(k, v)]
        /\ initDur' = [initDur EXCEPT ![v] = d]
        /\ initOutcome' = [initOutcome EXCEPT ![v] = k]
        /\ ran' = [ran EXCEPT ![v] = Append(@, ScenarioName(v))]             \* 180, 195
        /\ pc' = [pc EXCEPT ![v] = StepAfter("initialize", InitToken(k, v), tool[v])]
    /\ UNCHANGED <<parseVars, endVars, orchVars, toolVars, nodeVars, dirVars, iter, tool, callResult, callDur, totalDuration, mcpErrors,
                   mcpErrorRate, trend, checks, callHeader, delOutcome, atCall, marked,
                   lastCheck, recorded>>

\* 2. notifications/initialized: a bare http.post, its response is not looked at
Notify(v, kinds, walls) ==
    /\ pc[v] = "notify"
    /\ \E k \in kinds, w \in walls :
        /\ sent' = [sent EXCEPT ![v] =
                        Append(@, [m |-> "notifications/initialized", sid |-> HeaderToken(v)])]
        /\ clock' = [clock EXCEPT ![v] = @ + w]
        /\ httpReqs' = httpReqs + 1
        /\ httpFailed' = httpFailed + Failed(k)
        /\ mcpRequests' = mcpRequests + mcpRequestsAdd("notifications/initialized")
        /\ pc' = [pc EXCEPT ![v] = StepAfter("notify", sessionId[v], tool[v])]
    /\ UNCHANGED <<parseVars, endVars, orchVars, toolVars, nodeVars, dirVars, iter, tool, sessionId, callResult, start, initDur, callDur,
                   totalDuration, mcpErrors, mcpErrorRate, trend, checks, initOutcome,
                   callHeader, delOutcome, atCall, marked, lastCheck, recorded, ran>>

\* 3. tools/call (mcpSession 112-117) or tools/list with its recording (209-214)
Call(v, kinds, headers, walls, exact) ==
    /\ pc[v] = "call"
    /\ \E k \in kinds, h \in headers, w \in walls :
       \E d \in Durations(w, exact) :
        LET result == Decoded[k]                                             \* 79
            total == DateNow(clock[v] + w) - start[v]                        \* 117
        IN
        /\ sent' = [sent EXCEPT ![v] = Append(@, [m |-> InvokeMethod(v), sid |-> HeaderToken(v)])]
        /\ clock' = [clock EXCEPT ![v] = @ + w]
        /\ httpReqs' = httpReqs + 1
        /\ httpFailed' = httpFailed + Failed(k)
        /\ mcpRequests' = mcpRequests + mcpRequestsAdd(InvokeMethod(v))      \* 75
        /\ callResult' = [callResult EXCEPT ![v] = result]
        /\ callDur' = [callDur EXCEPT ![v] = d]
        /\ callHeader' = [callHeader EXCEPT ![v] = IF h THEN RotatedToken(v) ELSE NoTok]
        /\ IF tool[v] = ListIdx
           THEN /\ trend' = TrendAdd(trend, "mcp_tools_list_duration")       \* 213
                /\ recorded' = [recorded EXCEPT ![v] =
                                    [tool |-> ListIdx, init |-> 0, call |-> d, total |-> 0]]
                /\ checks' = CheckAdd(checks, listCheck(result))             \* 214
                /\ lastCheck' = [lastCheck EXCEPT ![v] = listCheck(result)]
                /\ UNCHANGED <<totalDuration, atCall>>
           ELSE /\ totalDuration' = [totalDuration EXCEPT ![v] = total]
                /\ atCall' = [atCall EXCEPT ![v] =
                                [err |-> isError(result), total |-> total,
                                 init |-> initDur[v], call |-> d,
                                 status |-> StatusOf(k)]]
                /\ UNCHANGED <<trend, checks, lastCheck, recorded>>
        /\ pc' = [pc EXCEPT ![v] = StepAfter("call", sessionId[v], tool[v])]
    /\ UNCHANGED <<parseVars, endVars, orchVars, toolVars, nodeVars, dirVars, iter, tool, sessionId, start, initDur, mcpErrors,
                   mcpErrorRate, initOutcome, delOutcome, marked, ran>>

\* 4. DELETE, sent only with a session id (120-123, 217-219); the response is dropped
Teardown(v, kinds, walls) ==
    /\ pc[v] = "teardown"
    /\ \E k \in kinds, w \in walls :
        /\ sent' = [sent EXCEPT ![v] = Append(@, [m |-> "DELETE", sid |-> HeaderToken(v)])]
        /\ clock' = [clock EXCEPT ![v] = @ + w]
        /\ httpReqs' = httpReqs + 1
        /\ httpFailed' = httpFailed + Failed(k)
        /\ mcpRequests' = mcpRequests + mcpRequestsAdd("DELETE")
        /\ delOutcome' = [delOutcome EXCEPT ![v] = k]
        /\ pc' = [pc EXCEPT ![v] = StepAfter("teardown", sessionId[v], tool[v])]
    /\ UNCHANGED <<parseVars, endVars, orchVars, toolVars, nodeVars, dirVars, iter, tool, sessionId, callResult, start, initDur, callDur,
                   totalDuration, mcpErrors, mcpErrorRate, trend, checks, initOutcome,
                   callHeader, atCall, marked, lastCheck, recorded, ran>>

\* 5. the end of a scenario session: track errors (126-132), return (134), record
\*    the metrics (183-185) and validate (188-190)
Finish(v) ==
    /\ pc[v] = "finish"
    /\ mcpErrors' = mcpErrors + (IF SessionError(v) THEN 1 ELSE 0)           \* 128
    /\ mcpErrorRate' = RateAdd(mcpErrorRate, SessionError(v))                \* 129, 131
    /\ marked' = [marked EXCEPT ![v] = SessionError(v)]
    /\ trend' = TrendAdd(TrendAdd(TrendAdd(trend,
                    "mcp_initialize_duration"),                              \* 183
                    TOOLS[tool[v]].metric),                                  \* 184
                    "mcp_full_session_duration")                             \* 185
    /\ recorded' = [recorded EXCEPT ![v] =
                        [tool |-> tool[v], init |-> initDur[v], call |-> callDur[v],
                         total |-> totalDuration[v]]]
    /\ checks' = CheckAdd(checks, ToolCheck(tool[v], callResult[v]))         \* 190
    /\ lastCheck' = [lastCheck EXCEPT ![v] = ToolCheck(tool[v], callResult[v])]
    /\ pc' = [pc EXCEPT ![v] = StepAfter("finish", sessionId[v], tool[v])]
    /\ UNCHANGED <<parseVars, endVars, orchVars, toolVars, nodeVars, dirVars, iter, tool, sessionId, callResult, clock, start, initDur,
                   callDur, totalDuration, mcpRequests, httpReqs, httpFailed, sent,
                   initOutcome, callHeader, delOutcome, atCall, ran>>

\* 6. the end of the loop body (191): the next tool, or the tools/list block
NextTool(v) ==
    /\ pc[v] = "next"
    /\ tool' = [tool EXCEPT ![v] = @ + 1]                                    \* 179
    /\ EndOfScope(v)
    /\ pc' = [pc EXCEPT ![v] = StepAfter("next", sessionId[v], tool[v])]
    /\ UNCHANGED <<parseVars, endVars, orchVars, toolVars, nodeVars, dirVars, iter, metricVars, ran>>

\* 7. sleep(0.1) ends the iteration (222); k6 starts the next one while the run lasts
Sleep(v) ==
    /\ pc[v] = "sleep"
    /\ EndOfScope(v)
    /\ ran' = [ran EXCEPT ![v] = <<>>]
    /\ IF iter[v] < MaxIter
       THEN /\ iter' = [iter EXCEPT ![v] = @ + 1]
            /\ tool' = [tool EXCEPT ![v] = 1]
            /\ pc' = [pc EXCEPT ![v] = "initialize"]
       ELSE /\ pc' = [pc EXCEPT ![v] = "done"]
            /\ UNCHANGED <<iter, tool>>
    /\ UNCHANGED <<parseVars, endVars, orchVars, toolVars, nodeVars, dirVars, metricVars>>

----------------------------------------------------------------------------
(* The response decoder on its own: bodies of up to MaxLines lines *)

ObjA1 == <<"{", "\"a\"", ":", "1", "}">>
ObjA2 == <<"{", "\"a\"", ":", "2", "}">>
ObjB2 == <<"{", "\"b\"", ":", "2", "}">>

\* the lines bodies are built from
Lines == {
    ObjA1,                                      \* {"a":1}
    <<"[", "1", "]">>,                          \* [1]
    <<"{", "\"a\"", ":">>,                      \* {"a":       (a document goes on)
    <<"2", "}">>,                               \* 2}          (a document ends)
    DataMarker \o ObjA1,                        \* data:{"a":1}
    DataMarker \o <<SP>> \o ObjB2 \o <<CR>>,    \* data: {"b":2}\r
    <<SP>> \o DataMarker \o ObjA2,              \*  data:{"a":2}   (indented)
    DataMarker \o <<"{">>,                      \* data:{      (malformed payload)
    DataMarker \o <<"[", "1", "]">>,            \* data:[1]    (not an object)
    DataMarker,                                 \* data:
    <<"e">>,                                    \* event: message
    <<>>,                                       \* an empty line
    <<SP>> }                                    \* a blank line

RECURSIVE Join(_)
Join(ls) == IF Len(ls) = 1 THEN ls[1] ELSE ls[1] \o <<LF>> \o Join(Tail(ls))

BodyInputs ==
    {Absent} \cup {Text(Join(ls)) : ls \in UNION {[1..n -> Lines] : n \in 1..MaxLines}}

\* no predicate was applied
NotChecked == [tool |-> 0, value |-> VUndef]

\* response bodies for the predicates: {"result":{"content":[{"text":T}]}} for the
\* texts T, and payloads that lack a part of it
TextValues == {"\"<good>\"", "\"<wrong>\"", "\"<notjson>\"", "\"55\"", "\"null\"", "\"<fib>\"",
               "\"<fibstring>\"", "\"<name>\"", "\"<flat>\"", "\"<tdnull>\"", "\"<empty>\"",
               "\"<list>\"", EmptyString, "55", "null", "true"}

ItemOf(t) == <<"{", "\"text\"", ":">> \o t \o <<"}">>

Contents ==
    {<<"[">> \o ItemOf(<<t>>) \o <<"]">> : t \in TextValues}
    \cup { <<"[", "]">>,                                             \* no item
           <<"\"a\"">>,                                            \* a string
           <<"null">>, <<"0">>,                                     \* falsy
           <<"[", "null", "]">>, <<"[", "\"a\"", "]">>,
           <<"[", "{", "}", "]">>,                                  \* an item without text
           <<"[">> \o ItemOf(<<"[", "\"<good>\"", "]">>) \o <<"]">>, \* text: ["..."]
           <<"[">> \o ItemOf(<<"\"<wrong>\"">>) \o <<",">> \o ItemOf(<<"\"<good>\"">>) \o <<"]">>,
           <<"[">> \o ItemOf(<<"\"<good>\"">>) \o <<",">> \o ItemOf(<<"\"<wrong>\"">>) \o <<"]">> }

CheckInputs ==
    {Text(<<"{", "\"result\"", ":", "{", "\"content\"", ":">> \o c \o <<"}", "}">>) : c \in Contents}
    \cup { Absent,
           Text(<<"x">>),
           Text(<<"55">>),
           Text(<<"{", "\"result\"", ":", "null", "}">>),
           Text(<<"{", "\"result\"", ":", "{", "}", "}">>),
           Text(<<"{", "\"result\"", ":", "55", "}">>),
           Text(<<"{", "\"error\"", ":">> \o ErrorObject \o <<"}">>),
           Text(<<"e", LF>> \o DataMarker \o <<SP, "{", "\"result\"", ":">> \o GoodResult
                \o <<"}", LF, LF>>) }

InitChecks ==
    /\ body \in CheckInputs
    /\ parsed = NoResult
    /\ ppc = "ready"
    /\ checked = NotChecked

\* check(callResult, { [tool.checkName]: tool.check }) of line 190 on what
\* parseBody returned
CheckCall ==
    /\ ppc = "done"
    /\ \E i \in DOMAIN TOOLS : checked' = [tool |-> i, value |-> ToolCheckValue(i, parsed)]
    /\ ppc' = "checked"
    /\ UNCHANGED <<body, parsed, vuVars, metricVars, auxVars, endVars, orchVars, toolVars, nodeVars, dirVars>>

InitParse ==
    /\ body \in BodyInputs
    /\ parsed = NoResult
    /\ ppc = "ready"
    /\ checked = NotChecked

ParseBodyCall ==
    /\ ppc = "ready"
    /\ parsed' = parseBody(body)
    /\ ppc' = "done"
    /\ UNCHANGED <<body, checked, vuVars, metricVars, auxVars, endVars, orchVars, toolVars, nodeVars, dirVars>>

----------------------------------------------------------------------------
(* Specifications *)

VUs == 1..NumVUs

InitVU(phases) ==
    /\ pc = [v \in VUs |-> "initialize"]
    /\ iter = [v \in VUs |-> 1]
    /\ tool = [v \in VUs |-> 1]
    /\ sessionId = [v \in VUs |-> NoTok]
    /\ callResult = [v \in VUs |-> VNull]
    /\ clock \in [VUs -> phases]
    /\ start = [v \in VUs |-> 0]
    /\ initDur = [v \in VUs |-> 0]
    /\ callDur = [v \in VUs |-> 0]
    /\ totalDuration = [v \in VUs |-> 0]

InitMetrics ==
    /\ mcpRequests = 0
    /\ mcpErrors = 0
    /\ mcpErrorRate = [trues |-> 0, total |-> 0]
    /\ trend = [n \in TrendNames |-> 0]
    /\ checks = [passes |-> 0, fails |-> 0]
    /\ httpReqs = 0
    /\ httpFailed = 0

InitAux ==
    /\ sent = [v \in VUs |-> <<>>]
    /\ initOutcome = [v \in VUs |-> "none"]
    /\ callHeader = [v \in VUs |-> NoTok]
    /\ delOutcome = [v \in VUs |-> "none"]
    /\ atCall = [v \in VUs |-> NoDecision]
    /\ marked = [v \in VUs |-> FALSE]
    /\ lastCheck = [v \in VUs |-> FALSE]
    /\ recorded = [v \in VUs |-> NoRecord]
    /\ ran = [v \in VUs |-> <<>>]

\* the run has not ended
NoSummary == [emitted |-> FALSE]

InitEnd == stopping = FALSE /\ verdict = "pending" /\ summary = NoSummary

\* run_benchmark.sh: the services of ALL_SERVICES (18) and the targets of the
\* for loop of main (212), by name
Services == {"python", "go", "nodejs", "java", "rust"}
Targets == <<"rust", "java", "go">>

\* the script has not begun; `up` are the sets of containers that may be up
InitOrch(up) ==
    /\ opc = "mock"
    /\ tgt = 1
    /\ running \in up
    /\ elapsed = 0
    /\ probed = <<>>
    /\ sampler = {}
    /\ load = "none"
    /\ steps = [t \in 1..Len(Targets) |-> <<>>]
    /\ mainLog = <<>>

\* the script is not run
NoOrch == InitOrch({{}})

\* the servers whose tools are modelled
Servers == {"go", "nodejs", "java"}

\* a server has not answered
Pending == [kind |-> "pending"]

\* no tool is called
NoTool == treq = [tool |-> "none", arg |-> 0] /\ tres = [s \in Servers |-> Pending]

\* the results directory is empty and the Consolidator has not run
TargetNames == {Targets[i] : i \in DOMAIN Targets}
NoArtifact == [present |-> FALSE, sessions |-> 0, avg |-> 0, p99 |-> 0, rps |-> 0, mem |-> 0]
NoReport == [written |-> FALSE]

NoDir ==
    /\ dir = [art |-> [t \in TargetNames |-> NoArtifact], combined |-> NoReport]
    /\ reports = <<>>

\* the Node.js server has been sent nothing
Reqs == 1..MaxReqs
RpcIds == {1, 2}            \* the JSON-RPC ids of the harness (benchmark.js 96, 113)
ObjIds == 1..(2 * MaxReqs)
NoConn == [rpc |-> 0, transport |-> 0, server |-> 0, served |-> FALSE]
NoResp == [closed |-> FALSE, wrote |-> {}, listening |-> FALSE, cleanup |-> "none"]

NoNode ==
    /\ hpc = [r \in Reqs |-> "idle"]
    /\ conn = [r \in Reqs |-> NoConn]
    /\ created = 0
    /\ routes = [t \in ObjIds |-> [i \in RpcIds |-> 0]]
    /\ closedObj = {}
    /\ resp = [r \in Reqs |-> NoResp]

NoParse == body = Absent /\ parsed = NoResult /\ ppc = "ready" /\ checked = NotChecked

\* a request that takes one millisecond
OneMs == {TicksPerMs}

\* Spec: NumVUs concurrent virtual users, each with a runtime of its own, against
\* a target that issues every session a token and answers every call
Init == NoParse /\ InitVU({0}) /\ InitMetrics /\ InitAux /\ InitEnd /\ NoOrch /\ NoTool /\ NoNode /\ NoDir

Next ==
    \E v \in VUs :
        \/ Initialize(v, {"ok"}, OneMs, TRUE)
        \/ Notify(v, {"ok"}, OneMs)
        \/ Call(v, {"good"}, {FALSE}, OneMs, TRUE)
        \/ Teardown(v, {"ok"}, OneMs)
        \/ Finish(v)
        \/ NextTool(v)
        \/ Sleep(v)

Spec == Init /\ [][Next]_vars

\* SpecSession: one virtual user against a target that answers every request and
\* may put anything into the body of its tools/call (tools/list) response
NextSession ==
    \/ Initialize(1, {"ok", "notoken"}, OneMs, TRUE)
    \/ Notify(1, {"ok"}, OneMs)
    \/ Call(1, AllKinds, {FALSE}, OneMs, TRUE)
    \/ Teardown(1, {"ok"}, OneMs)
    \/ Finish(1)
    \/ NextTool(1)
    \/ Sleep(1)

SpecSession == Init /\ [][NextSession]_vars

\* SpecStatus: one virtual user against a target whose tools/call answer may be
\* a good one, a 200 or a 500 with a body that is no JSON, or none at all
NextStatus ==
    \/ Initialize(1, {"ok"}, OneMs, TRUE)
    \/ Notify(1, {"ok"}, OneMs)
    \/ Call(1, {"good", "garbage", "error_page", "transport"}, {FALSE}, OneMs, TRUE)
    \/ Teardown(1, {"ok"}, OneMs)
    \/ Finish(1)
    \/ NextTool(1)
    \/ Sleep(1)

SpecStatus == Init /\ [][NextStatus]_vars

\* SpecFailures: one virtual user against a target whose every step may fail:
\* handshake, acknowledge, call and teardown
DelKinds == {"ok", "non2xx", "timeout", "connfail"}

NextFailures ==
    \/ Initialize(1, InitKinds, OneMs, TRUE)
    \/ Notify(1, {"ok", "transport"}, OneMs)
    \/ Call(1, {"good", "error", "transport"}, BOOLEAN, OneMs, TRUE)
    \/ Teardown(1, DelKinds, OneMs)
    \/ Finish(1)
    \/ NextTool(1)
    \/ Sleep(1)

SpecFailures == Init /\ [][NextFailures]_vars

\* SpecTimed: one virtual user, requests of any length up to MaxWall ticks,
\* started anywhere within a millisecond
InitTimed ==
    /\ NoParse /\ InitVU(0..(TicksPerMs - 1)) /\ InitMetrics /\ InitAux /\ InitEnd /\ NoOrch /\ NoTool /\ NoNode /\ NoDir
    /\ \A v \in VUs : v # 1 => clock[v] = 0

NextTimed ==
    \/ Initialize(1, {"ok", "notoken"}, 1..MaxWall, FALSE)
    \/ Notify(1, {"ok"}, 1..MaxWall)
    \/ Call(1, {"good", "error"}, {FALSE}, 1..MaxWall, FALSE)
    \/ Teardown(1, {"ok"}, 1..MaxWall)
    \/ Finish(1)
    \/ NextTool(1)
    \/ Sleep(1)

SpecTimed == InitTimed /\ [][NextTimed]_vars

\* SpecParse: parseBody applied to every body of BodyInputs
InitParseSpec == InitParse /\ InitVU({0}) /\ InitMetrics /\ InitAux /\ InitEnd /\ NoOrch /\ NoTool /\ NoNode /\ NoDir

NextParse == ParseBodyCall

SpecParse == InitParseSpec /\ [][NextParse]_vars

\* SpecChecks: a response body is decoded and a scenario's predicate applied to
\* the outcome
InitChecksSpec == InitChecks /\ InitVU({0}) /\ InitMetrics /\ InitAux /\ InitEnd /\ NoOrch /\ NoTool /\ NoNode /\ NoDir

NextChecks == ParseBodyCall \/ CheckCall

SpecChecks == InitChecksSpec /\ [][NextChecks]_vars

----------------------------------------------------------------------------
(* The end of a run: k6's ramping executor (options.stages, 10-15), the    *)
(* threshold (16-18) and handleSummary (226-274)                           *)

\* 'rate<0.05', as a percentage
ThresholdPct == 5

\* the threshold expression of line 17 on a Rate of `hits` out of `total` samples
\* (a Rate without samples has the value 0)
RateBelowCeiling(hits, total) == total = 0 \/ hits * 100 < ThresholdPct * total

\* extractTrend (284-295): null for a metric the run has no sample of
extractTrend(data, name) ==
    IF data.trend[name] = 0 THEN [present |-> FALSE, count |-> 0]
    ELSE [present |-> TRUE, count |-> data.trend[name]]

\* the toolMetrics table of lines 256-263
toolMetrics ==
    [k \in {"calculate_fibonacci", "fetch_external_data", "process_json_data",
            "simulate_database_query", "_initialize", "_tools_list"} |->
        CASE k = "calculate_fibonacci" -> "mcp_fibonacci_duration"
          [] k = "fetch_external_data" -> "mcp_fetch_duration"
          [] k = "process_json_data" -> "mcp_json_process_duration"
          [] k = "simulate_database_query" -> "mcp_db_query_duration"
          [] k = "_initialize" -> "mcp_initialize_duration"
          [] OTHER -> "mcp_tools_list_duration"]

\* the data k6 hands to handleSummary: the metrics at the end of the run and the
\* outcome of the thresholds
SummaryData(v) ==
    [trend |-> trend, mcpRequests |-> mcpRequests, mcpErrors |-> mcpErrors,
     mcpErrorRate |-> mcpErrorRate, httpReqs |-> httpReqs, httpFailed |-> httpFailed,
     breached |-> (v = "failed")]

\* faulty variant of handleSummary: a breached run reports its counters only
handleSummarySuppressed(data) ==
    [emitted |-> TRUE,
     http |-> [total_requests |-> data.httpReqs, failed_requests |-> data.httpFailed],
     mcp |-> [total_mcp_requests |-> data.mcpRequests, mcp_errors |-> data.mcpErrors,
              error_rate |-> data.mcpErrorRate],
     session |-> IF data.breached THEN [present |-> FALSE, count |-> 0]
                 ELSE extractTrend(data, "mcp_full_session_duration"),
     tools |-> [k \in {k \in DOMAIN toolMetrics :
                        ~data.breached /\ extractTrend(data, toolMetrics[k]).present} |->
                    extractTrend(data, toolMetrics[k])]]

\* the summary document of lines 229-267; error_rate is kept as the Rate's
\* two counts (its value is trues / total, 0 without samples)
handleSummary(data) ==
    [emitted |-> TRUE,
     http |-> [total_requests |-> data.httpReqs, failed_requests |-> data.httpFailed],
     mcp |-> [total_mcp_requests |-> data.mcpRequests, mcp_errors |-> data.mcpErrors,
              error_rate |-> data.mcpErrorRate],
     session |-> extractTrend(data, "mcp_full_session_duration"),
     tools |-> [k \in {k \in DOMAIN toolMetrics :
                        extractTrend(data, toolMetrics[k]).present} |->
                    extractTrend(data, toolMetrics[k])]]

\* the last stage has elapsed: the executor starts no new iteration; one that is
\* running goes on (the script never asks whether the run is over)
EndOfRun ==
    /\ ~stopping
    /\ verdict = "pending"
    /\ stopping' = TRUE
    /\ UNCHANGED <<parseVars, vuVars, metricVars, auxVars, orchVars, toolVars, nodeVars, dirVars, verdict, summary>>

\* v's iteration ends after the last stage: v is not given another one
Retire(v) ==
    /\ stopping
    /\ pc[v] = "sleep"
    /\ EndOfScope(v)
    /\ ran' = [ran EXCEPT ![v] = <<>>]
    /\ pc' = [pc EXCEPT ![v] = "done"]
    /\ UNCHANGED <<parseVars, endVars, orchVars, toolVars, nodeVars, dirVars, iter, tool, metricVars>>

\* the executor's grace period runs out: v's iteration is interrupted where it is
Interrupt(v) ==
    /\ stopping
    /\ pc[v] # "done"
    /\ EndOfScope(v)
    /\ ran' = [ran EXCEPT ![v] = <<>>]
    /\ pc' = [pc EXCEPT ![v] = "done"]
    /\ UNCHANGED <<parseVars, endVars, orchVars, toolVars, nodeVars, dirVars, iter, tool, metricVars>>

\* all virtual users are done: k6 evaluates the threshold and calls handleSummary
EndOfTest ==
    /\ \A v \in VUs : pc[v] = "done"
    /\ verdict = "pending"
    /\ verdict' = IF RateBelowCeiling(httpFailed, httpReqs) THEN "passed" ELSE "failed"
    /\ summary' = handleSummary(SummaryData(verdict'))
    /\ UNCHANGED <<parseVars, vuVars, metricVars, auxVars, orchVars, toolVars, nodeVars, dirVars, stopping>>

\* SpecRun: a run of one scheduled virtual user against a target whose DELETE
\* may fail, up to the end of the test
InitRun ==
    /\ NoParse /\ InitMetrics /\ InitAux /\ InitEnd /\ NoOrch /\ NoTool /\ NoNode /\ NoDir
    /\ pc = [v \in VUs |-> IF v = 1 THEN "initialize" ELSE "done"]
    /\ iter = [v \in VUs |-> 1]
    /\ tool = [v \in VUs |-> 1]
    /\ sessionId = [v \in VUs |-> NoTok]
    /\ callResult = [v \in VUs |-> VNull]
    /\ clock = [v \in VUs |-> 0]
    /\ start = [v \in VUs |-> 0]
    /\ initDur = [v \in VUs |-> 0]
    /\ callDur = [v \in VUs |-> 0]
    /\ totalDuration = [v \in VUs |-> 0]

NextRun ==
    \/ Initialize(1, {"ok"}, OneMs, TRUE)
    \/ Notify(1, {"ok"}, OneMs)
    \/ Call(1, {"good"}, {FALSE}, OneMs, TRUE)
    \/ Teardown(1, {"ok", "non2xx"}, OneMs)
    \/ Finish(1)
    \/ NextTool(1)
    \/ (~stopping /\ Sleep(1))
    \/ Retire(1)
    \/ Interrupt(1)
    \/ EndOfRun
    \/ EndOfTest

SpecRun == InitRun /\ [][NextRun]_vars

\* SpecErrorTarget: a run against a target that answers every tools/call with a
\* JSON-RPC error object in an HTTP 200 response
NextErrorTarget ==
    \/ Initialize(1, {"ok", "notoken"}, OneMs, TRUE)
    \/ Notify(1, {"ok"}, OneMs)
    \/ (tool[1] # ListIdx /\ Call(1, {"error"}, {FALSE}, OneMs, TRUE))
    \/ (tool[1] = ListIdx /\ Call(1, {"tools", "error"}, {FALSE}, OneMs, TRUE))
    \/ Teardown(1, {"ok"}, OneMs)
    \/ Finish(1)
    \/ NextTool(1)
    \/ Sleep(1)
    \/ EndOfTest

SpecErrorTarget == InitRun /\ [][NextErrorTarget]_vars

\* SpecHttp: a run of one scheduled virtual user, up to the end of the test,
\* against a target that issues every session a token and answers every call,
\* while the acknowledge and the DELETE may fail
NextHttp ==
    \/ Initialize(1, {"ok"}, OneMs, TRUE)
    \/ Notify(1, {"ok", "transport"}, OneMs)
    \/ Call(1, {"good"}, {FALSE}, OneMs, TRUE)
    \/ Teardown(1, DelKinds, OneMs)
    \/ Finish(1)
    \/ NextTool(1)
    \/ Sleep(1)
    \/ EndOfTest

SpecHttp == InitRun /\ [][NextHttp]_vars

\* SpecCounts: a run of NumVUs concurrent virtual users, up to the end of the
\* test, against a target that may answer the calculate_fibonacci calls of the
\* first virtual user with a JSON-RPC error
CountsKinds(v) == IF v = 1 /\ tool[v] = 1 THEN {"good", "error"} ELSE {"good"}

NextCounts ==
    \/ \E v \in VUs :
        \/ Initialize(v, {"ok"}, OneMs, TRUE)
        \/ Notify(v, {"ok"}, OneMs)
        \/ Call(v, CountsKinds(v), {FALSE}, OneMs, TRUE)
        \/ Teardown(v, {"ok"}, OneMs)
        \/ Finish(v)
        \/ NextTool(v)
        \/ Sleep(v)
    \/ EndOfTest

SpecCounts == Init /\ [][NextCounts]_vars

----------------------------------------------------------------------------
(* The orchestrator: run_benchmark.sh, main (192-231) and benchmark_server *)
(* (137-188).  The script runs under set -euo pipefail (2), but main calls  *)
(* benchmark_server on the left of || (213), where bash ignores errexit in  *)
(* the whole function body: a failing command there is followed by the next.*)

\* local max_wait=60
max_wait == 60

\* the target of the running pass of the for loop
Target == Targets[tgt]

\* the probes of one round of wait_for_health, in the order of lines 57-71
Probes == <<"/health", "/actuator/health", "initialize">>

\* one of the probes of a round is answered
AnyAnswer(answers) == \E i \in DOMAIN Probes : answers[i]

\* faulty variant of ProbesTried: every round sends the three probes
ProbesTriedAll(answers) ==
    [i \in DOMAIN Probes |-> [probe |-> Probes[i], answered |-> answers[i]]]

\* the probes a round sends: each if ... then break of lines 57-71 ends the round
\* at the first answered probe
ProbesTried(answers) ==
    LET last == IF AnyAnswer(answers)
                THEN CHOOSE i \in DOMAIN Probes : answers[i] /\ \A j \in 1..i - 1 : ~answers[j]
                ELSE Len(Probes)
    IN  [i \in 1..last |-> [probe |-> Probes[i], answered |-> answers[i]]]

\* faulty variant of PipelineNext: a target that never got healthy is warmed up
\* and measured all the same (the return of line 161 is missing)
PipelineNextNoSkip(step, ok) ==
    CASE step = "stop" -> "start"
      [] step = "start" -> "health"
      [] step = "health" -> "warmup"
      [] step = "warmup" -> "sampler"
      [] step = "sampler" -> "load"
      [] step = "load" -> "loadend"
      [] step = "loadend" -> "samplerstop"
      [] OTHER -> "next"

\* faulty variant of PipelineNext: errexit is in force inside benchmark_server, a
\* failing command ends the script
PipelineNextErrexit(step, ok) ==
    CASE step = "stop" -> "start"
      [] step = "start" -> IF ok THEN "health" ELSE "aborted"
      [] step = "health" -> IF ok THEN "warmup" ELSE "next"
      [] step = "warmup" -> IF ok THEN "sampler" ELSE "aborted"
      [] step = "sampler" -> IF ok THEN "load" ELSE "aborted"
      [] step = "load" -> "loadend"
      [] step = "loadend" -> IF ok THEN "samplerstop" ELSE "aborted"
      [] OTHER -> IF ok THEN "next" ELSE "aborted"

\* faulty variant of PipelineNext: the stats collector is started after k6 has run
PipelineNextSamplerLate(step, ok) ==
    CASE step = "stop" -> "start"
      [] step = "start" -> "health"
      [] step = "health" -> IF ok THEN "warmup" ELSE "next"
      [] step = "warmup" -> "load"
      [] step = "load" -> "loadend"
      [] step = "loadend" -> "sampler"
      [] step = "sampler" -> "samplerstop"
      [] OTHER -> "next"

\* the step of benchmark_server that follows `step`, which succeeded or failed
PipelineNext(step, ok) ==
    CASE step = "stop" -> "start"                                    \* 155: || true
      [] step = "start" -> "health"                                  \* 156: status ignored
      [] step = "health" -> IF ok THEN "warmup" ELSE "next"          \* 159-162
      [] step = "warmup" -> "sampler"                                \* 165: || true
      [] step = "sampler" -> "load"                                  \* 169-171
      [] step = "load" -> "loadend"                                  \* 175
      [] step = "loadend" -> "samplerstop"                           \* 180: status ignored
      [] OTHER -> "next"                                             \* 187, 213

Did(what) == steps' = [steps EXCEPT ![tgt] = Append(@, what)]

K6Idle == UNCHANGED <<parseVars, vuVars, metricVars, auxVars, endVars, toolVars, nodeVars, dirVars>>

\* main, 206-209: docker compose up mock-api and wait_for_mock_api, under errexit
MockApi ==
    /\ opc = "mock"
    /\ \E ok \in BOOLEAN :
        /\ opc' = IF ok THEN "stop" ELSE "aborted"
        /\ mainLog' = Append(mainLog, IF ok THEN "mock_api" ELSE "mock_api_failed")
    /\ UNCHANGED <<probed, tgt, running, elapsed, sampler, load, steps>>
    /\ K6Idle

\* stop_all_servers (122-128): docker compose stop ... || true; when the command
\* fails, any of the containers may be left up
StopAll ==
    /\ opc = "stop"
    /\ \E left \in SUBSET running :
        /\ running' = left
        /\ steps' = [steps EXCEPT ![tgt] = <<IF left = {} THEN "stop_all" ELSE "stop_failed">>]
    /\ mainLog' = Append(mainLog, Target)
    /\ \E ok \in BOOLEAN : opc' = PipelineNext("stop", ok)
    /\ UNCHANGED <<probed, tgt, elapsed, sampler, load>>
    /\ K6Idle

\* start_server (130-135): docker compose up -d, which may fail
StartServer ==
    /\ opc = "start"
    /\ \E ok \in BOOLEAN :
        /\ running' = IF ok THEN running \cup {Target} ELSE running
        /\ Did(IF ok THEN "start" ELSE "start_failed")
        /\ opc' = PipelineNext("start", ok)
    /\ elapsed' = 0 /\ probed' = <<>>                                                  \* 52
    /\ UNCHANGED <<tgt, sampler, load, mainLog>>
    /\ K6Idle

\* wait_for_health (48-80), one pass of its loop: a probe can only be answered
\* by the target's container; each curl gives up after 2 s (-m 2)
HealthRound ==
    /\ opc = "health"
    /\ \E answers \in [DOMAIN Probes -> BOOLEAN] :
        /\ AnyAnswer(answers) => Target \in running
        /\ probed' = ProbesTried(answers)
        /\ IF AnyAnswer(answers)
           THEN /\ Did("healthy")                                    \* 57-71, 79
                /\ opc' = PipelineNext("health", TRUE)
                /\ elapsed' = 0
           ELSE IF elapsed + 1 >= max_wait                           \* 72-77
           THEN /\ Did("skip")                                       \* 160-161
                /\ opc' = PipelineNext("health", FALSE)
                /\ elapsed' = elapsed + 1
           ELSE /\ elapsed' = elapsed + 1
                /\ UNCHANGED <<opc, steps>>
    /\ UNCHANGED <<tgt, running, sampler, load, mainLog>>
    /\ K6Idle

\* warmup (82-120): 15 foreground curl calls, each || true; whether they fail
\* leaves no trace
Warmup ==
    /\ opc = "warmup"
    /\ probed' = <<>>
    /\ Did("warmup")
    /\ \E ok \in BOOLEAN : opc' = PipelineNext("warmup", ok)
    /\ UNCHANGED <<tgt, running, elapsed, sampler, load, mainLog>>
    /\ K6Idle

\* 169-171: collect_stats.py in the background; its status is not looked at
SamplerStart ==
    /\ opc = "sampler"
    /\ sampler' = sampler \cup {Target}
    /\ Did("sampler_start")
    /\ \E ok \in BOOLEAN : opc' = PipelineNext("sampler", ok)
    /\ UNCHANGED <<probed, tgt, running, elapsed, load, mainLog>>
    /\ K6Idle

\* 175-180: k6 run starts
LoadStart ==
    /\ opc = "load"
    /\ load' = Target
    /\ Did("load_start")
    /\ opc' = PipelineNext("load", TRUE)
    /\ UNCHANGED <<probed, tgt, running, elapsed, sampler, mainLog>>
    /\ K6Idle

\* k6 run ends, with status 0 or not (99 for a breached threshold)
LoadEnd ==
    /\ opc = "loadend"
    /\ load' = "none"
    /\ \E ok \in BOOLEAN :
        /\ Did(IF ok THEN "load_end" ELSE "load_failed")
        /\ opc' = PipelineNext("loadend", ok)
    /\ UNCHANGED <<probed, tgt, running, elapsed, sampler, mainLog>>
    /\ K6Idle

\* 184: kill "$stats_pid" || true; the signal is sent, the collector is still up
SamplerStop ==
    /\ opc = "samplerstop"
    /\ opc' = "samplerwait"
    /\ UNCHANGED <<probed, tgt, running, elapsed, sampler, load, steps, mainLog>>
    /\ K6Idle

\* the signalled collector exits; a step of the collector, not of the script
SamplerExit ==
    /\ opc = "samplerwait"
    /\ Target \in sampler
    /\ sampler' = sampler \ {Target}
    /\ UNCHANGED <<probed, opc, tgt, running, elapsed, load, steps, mainLog>>
    /\ K6Idle

\* 185: wait "$stats_pid" || true; wait has no time limit and returns when the
\* collector has exited
SamplerWait ==
    /\ opc = "samplerwait"
    /\ Target \notin sampler
    /\ Did("sampler_stop")
    /\ \E ok \in BOOLEAN : opc' = PipelineNext("samplerstop", ok)
    /\ UNCHANGED <<probed, tgt, running, elapsed, sampler, load, mainLog>>
    /\ K6Idle

\* 212-214: benchmark_server has returned (|| warn when it returned 1)
NextTarget ==
    /\ opc = "next"
    /\ IF tgt < Len(Targets)
       THEN tgt' = tgt + 1 /\ opc' = "stop"
       ELSE tgt' = tgt /\ opc' = "finalstop"
    /\ UNCHANGED <<probed, running, elapsed, sampler, load, steps, mainLog>>
    /\ K6Idle

\* 217: stop_all_servers after the loop
FinalStop ==
    /\ opc = "finalstop"
    /\ \E left \in SUBSET running : running' = left
    /\ mainLog' = Append(mainLog, "stop_all")
    /\ opc' = "consolidate"
    /\ UNCHANGED <<probed, tgt, elapsed, sampler, load, steps>>
    /\ K6Idle

\* 222: consolidate.py, the last command of main that does anything
Consolidate ==
    /\ opc = "consolidate"
    /\ mainLog' = Append(mainLog, "consolidate")
    /\ opc' = "end"
    /\ UNCHANGED <<probed, tgt, running, elapsed, sampler, load, steps>>
    /\ K6Idle

\* SpecOrch: the script from its start, with any of the containers up
InitOrchSpec ==
    /\ NoParse /\ InitMetrics /\ InitAux /\ InitEnd /\ NoTool /\ NoNode /\ NoDir
    /\ InitOrch(SUBSET Services)
    /\ pc = [v \in VUs |-> "done"]
    /\ iter = [v \in VUs |-> 1]
    /\ tool = [v \in VUs |-> 1]
    /\ sessionId = [v \in VUs |-> NoTok]
    /\ callResult = [v \in VUs |-> VNull]
    /\ clock = [v \in VUs |-> 0]
    /\ start = [v \in VUs |-> 0]
    /\ initDur = [v \in VUs |-> 0]
    /\ callDur = [v \in VUs |-> 0]
    /\ totalDuration = [v \in VUs |-> 0]

NextOrch ==
    \/ MockApi
    \/ StopAll
    \/ StartServer
    \/ HealthRound
    \/ Warmup
    \/ SamplerStart
    \/ LoadStart
    \/ LoadEnd
    \/ SamplerStop
    \/ SamplerExit
    \/ SamplerWait
    \/ NextTarget
    \/ FinalStop
    \/ Consolidate

SpecOrch == InitOrchSpec /\ [][NextOrch]_vars

\* the steps of the script itself: every command returns, so the script goes on
\* whenever its next command can
ScriptStep ==
    \/ MockApi
    \/ StopAll
    \/ StartServer
    \/ HealthRound
    \/ Warmup
    \/ SamplerStart
    \/ LoadStart
    \/ LoadEnd
    \/ SamplerStop
    \/ SamplerWait
    \/ NextTarget
    \/ FinalStop
    \/ Consolidate

\* SpecOrchLive: the script keeps going; nothing is assumed of the collector
SpecOrchLive == InitOrchSpec /\ [][NextOrch]_vars /\ WF_vars(ScriptStep)

----------------------------------------------------------------------------
(* The tools of the target servers: Go (run_benchmark.sh 235-440), Node.js  *)
(* (nodejs-server/index.js) and Java (McpToolsService.java).  A handler     *)
(* returns a payload, [kind |-> "ok", ...], or fails, [kind |-> "error"],   *)
(* which the SDK reports as a tool error.                                  *)

ToolError == [kind |-> "error"]

\* the largest n each server accepts
GoFibLimit == 40
NodeFibLimit == 40
JavaFibLimit == 40

\* Integer.MAX_VALUE: Java's int has 32 bits
MaxInt32 == 2147483647

\* a + b of two Java ints that are not negative: the sum wraps around beyond
\* Integer.MAX_VALUE
JavaAdd(a, b) ==
    IF a > MaxInt32 - b THEN (a - MaxInt32 - 1) + (b - MaxInt32 - 1) ELSE a + b

\* a + b of two Go ints (64 bits on the platforms of the images) and of two
\* JavaScript numbers (exact up to 2^53): no wrap in the range of the model
GoAdd(a, b) == a + b
JsAdd(a, b) == a + b

\* McpToolsService.fibonacci (40-44) for 0..n, as <<fibonacci(0), ..., fibonacci(n)>>:
\* the recursion unfolded from the bottom, each sum a Java int
RECURSIVE JavaFibonacciUpTo(_)
JavaFibonacciUpTo(n) ==
    IF n <= 0 THEN <<0>>
    ELSE IF n = 1 THEN <<0, 1>>
    ELSE LET t == JavaFibonacciUpTo(n - 1)
         IN  Append(t, JavaAdd(t[n], t[n - 1]))

JavaFibonacci(n) == IF n <= 1 THEN n ELSE JavaFibonacciUpTo(n)[n + 1]

\* the closure fib of handleFibonacci (302-308), in the same way
RECURSIVE GoFibUpTo(_)
GoFibUpTo(n) ==
    IF n <= 0 THEN <<0>>
    ELSE IF n = 1 THEN <<0, 1>>
    ELSE LET t == GoFibUpTo(n - 1)
         IN  Append(t, GoAdd(t[n], t[n - 1]))

GoFib(n) == IF n <= 1 THEN n ELSE GoFibUpTo(n)[n + 1]

\* faulty variant of NodeFibLoop: the loop returns b, the number after the n-th
RECURSIVE NodeFibLoopNext(_, _, _, _)
NodeFibLoopNext(i, n, a, b) ==
    IF i < n THEN NodeFibLoopNext(i + 1, n, b, JsAdd(a, b)) ELSE b

\* index.js 25-28: let a = 0, b = 1; for (i < n) [a, b] = [b, a + b]; the result is a
RECURSIVE NodeFibLoop(_, _, _, _)
NodeFibLoop(i, n, a, b) ==
    IF i < n THEN NodeFibLoop(i + 1, n, b, JsAdd(a, b)) ELSE a

FibPayload(n, result, server) ==
    [kind |-> "ok", input |-> n, result |-> result, server_type |-> server]

\* handleFibonacci (297-315)
handleFibonacci(n) ==
    IF n < 0 \/ n > GoFibLimit THEN ToolError
    ELSE FibPayload(n, GoFib(n), "go")

\* calculate_fibonacci of index.js (17-42)
calculate_fibonacci(n) ==
    IF n < 0 \/ n > NodeFibLimit THEN ToolError
    ELSE FibPayload(n, NodeFibLoop(0, n, 0, 1), "nodejs")

\* McpToolsService.calculateFibonacci (23-38)
calculateFibonacci(n) ==
    IF n < 0 \/ n > JavaFibLimit THEN ToolError
    ELSE FibPayload(n, JavaFibonacci(n), "java")

\* a server answers the call it was given
Answer(s, payload) == tres' = [tres EXCEPT ![s] = payload]

ToolsIdle ==
    UNCHANGED <<treq, parseVars, vuVars, metricVars, auxVars, endVars, orchVars, nodeVars, dirVars>>

GoFibonacci ==
    /\ treq.tool = "calculate_fibonacci" /\ tres["go"] = Pending
    /\ Answer("go", handleFibonacci(treq.arg))
    /\ ToolsIdle

NodeFibonacci ==
    /\ treq.tool = "calculate_fibonacci" /\ tres["nodejs"] = Pending
    /\ Answer("nodejs", calculate_fibonacci(treq.arg))
    /\ ToolsIdle

JavaFibonacciCall ==
    /\ treq.tool = "calculate_fibonacci" /\ tres["java"] = Pending
    /\ Answer("java", calculateFibonacci(treq.arg))
    /\ ToolsIdle

\* the integers the servers are asked for: the accepted range and one on each side
FibArgs == -1..41

\* strings.ToUpper, String.prototype.toUpperCase and String.toUpperCase on the
\* strings of the model, which are ASCII
ToUpper(lex) ==
    CASE lex = "\"benchmark\"" -> "\"BENCHMARK\""
      [] lex = "\"value\"" -> "\"VALUE\""
      [] lex = "\"a\"" -> "\"A\""
      [] lex = "\"b\"" -> "\"B\""
      [] OTHER -> lex

\* the closure transformStrings of handleProcessData (343-362): a type switch on
\* map, slice and string
RECURSIVE transformStringsGo(_)
transformStringsGo(obj) ==
    CASE obj.t = "object" ->
            VObj([i \in DOMAIN obj.kv |-> <<obj.kv[i][1], transformStringsGo(obj.kv[i][2])>>])
      [] obj.t = "array" -> VArr([i \in DOMAIN obj.el |-> transformStringsGo(obj.el[i])])
      [] obj.t = "string" -> VStr(ToUpper(obj.s))
      [] OTHER -> obj

\* transformStrings of index.js (89-101): arrays are mapped, other objects rebuilt
\* entry by entry
RECURSIVE transformStringsNode(_)
transformStringsNode(obj) ==
    IF obj.t \in {"object", "array"}                     \* typeof obj === 'object' && obj !== null
    THEN IF obj.t = "array"
         THEN VArr([i \in DOMAIN obj.el |-> transformStringsNode(obj.el[i])])
         ELSE VObj([i \in DOMAIN obj.kv |->
                        <<obj.kv[i][1], transformStringsNode(obj.kv[i][2])>>])
    ELSE IF obj.t = "string" THEN VStr(ToUpper(obj.s))
    ELSE obj

\* the value McpToolsService.transformStrings (89-102) puts for an entry: a String
\* is upper-cased, a Map transformed, anything else (a List among them) put as it is
RECURSIVE transformStringsJava(_), JavaEntryValue(_)
JavaEntryValue(value) ==
    IF value.t = "string" THEN VStr(ToUpper(value.s))
    ELSE IF value.t = "object" THEN transformStringsJava(value)
    ELSE value

transformStringsJava(obj) ==
    VObj([i \in DOMAIN obj.kv |-> <<obj.kv[i][1], JavaEntryValue(obj.kv[i][2])>>])

\* the keys of an object, in no order
KeysOf(obj) == {obj.kv[i][1] : i \in DOMAIN obj.kv}

ProcessPayload(data, transformed, server) ==
    [kind |-> "ok", original_keys |-> KeysOf(data), transformed_data |-> transformed,
     server_type |-> server]

\* handleProcessData (342-376)
handleProcessData(data) == ProcessPayload(data, transformStringsGo(data), "go")

\* process_json_data of index.js (84-116)
process_json_data(data) == ProcessPayload(data, transformStringsNode(data), "nodejs")

\* McpToolsService.processJsonData (75-86)
processJsonData(data) == ProcessPayload(data, transformStringsJava(data), "java")

GoProcessData ==
    /\ treq.tool = "process_json_data" /\ tres["go"] = Pending
    /\ Answer("go", handleProcessData(treq.arg))
    /\ ToolsIdle

NodeProcessData ==
    /\ treq.tool = "process_json_data" /\ tres["nodejs"] = Pending
    /\ Answer("nodejs", process_json_data(treq.arg))
    /\ ToolsIdle

JavaProcessData ==
    /\ treq.tool = "process_json_data" /\ tres["java"] = Pending
    /\ Answer("java", processJsonData(treq.arg))
    /\ ToolsIdle

\* the objects the servers are given: the one of the benchmark (benchmark.js 159)
\* and objects with null, numbers, strings, objects and arrays at several depths
BenchmarkData ==
    VObj(<<<<"\"name\"", VStr("\"benchmark\"")>>, <<"\"count\"", VNum(42)>>,
           <<"\"nested\"", VObj(<<<<"\"key\"", VStr("\"value\"")>>>>)>>>>)

Leaves == {VStr("\"a\""), VStr("\"BENCHMARK\""), VStr(EmptyString), VNum(1), VNull, VBool(TRUE)}

Level1 ==
    Leaves \cup {VArr(<<>>), VObj(<<>>)}
    \cup {VArr(<<x>>) : x \in Leaves}
    \cup {VObj(<<<<"\"b\"", x>>>>) : x \in Leaves}

Level2 ==
    Level1
    \cup {VArr(<<VStr("\"a\""), VNum(1), VStr("\"b\"")>>),
          VArr(<<VObj(<<<<"\"name\"", VStr("\"a\"")>>>>)>>),
          VArr(<<VArr(<<VStr("\"a\"")>>)>>),
          VObj(<<<<"\"b\"", VArr(<<VStr("\"a\"")>>)>>>>),
          VObj(<<<<"\"b\"", VObj(<<<<"\"key\"", VStr("\"a\"")>>>>)>>>>)}

ProcessArgs ==
    {BenchmarkData, VObj(<<>>)}
    \cup {VObj(<<<<"\"a\"", x>>>>) : x \in Level2}
    \cup {VObj(<<<<"\"a\"", VStr("\"a\"")>>, <<"\"b\"", x>>>>) : x \in Leaves}

\* how the outbound GET of a server ends: no response (the connection is refused,
\* the client's timeout passes, the host is unknown) or a response with a status
TransportFailures == {"refused", "timeout", "unknown_host"}
GetFailed(cause) == [kind |-> "failed", cause |-> cause]
GetResponse(status) == [kind |-> "response", status |-> status]
GetOutcomes ==
    {GetFailed(c) : c \in TransportFailures} \cup {GetResponse(st) : st \in {200, 404, 500}}

\* the longest outbound GET, in milliseconds
MaxFetchMs == 1

FetchPayload(endpoint, status, ms, server) ==
    [kind |-> "ok", url |-> endpoint, status_code |-> status, response_time_ms |-> ms,
     server_type |-> server]

FetchFailure(endpoint, ms, message, server) ==
    [kind |-> "ok", url |-> endpoint, status_code |-> 0, response_time_ms |-> ms,
     error |-> message, server_type |-> server]

\* the variant of handleFetchData that returns the error of the GET to the SDK
handleFetchDataErr(endpoint, get, ms) ==
    IF get.kind = "failed" THEN ToolError
    ELSE FetchPayload(endpoint, get.status, ms, "go")

\* handleFetchData (317-340): err.Error() of the *url.Error names the cause and is
\* never empty, so the field Error (json "error,omitempty") is in the output
handleFetchData(endpoint, get, ms) ==
    IF get.kind = "failed" THEN FetchFailure(endpoint, ms, get.cause, "go")
    ELSE FetchPayload(endpoint, get.status, ms, "go")

\* fetch_external_data of index.js (45-81): fetch rejects with a TypeError whose
\* message is "fetch failed" when there is no response, and resolves for any status
fetch_external_data(endpoint, get, ms) ==
    IF get.kind = "failed" THEN FetchFailure(endpoint, ms, "fetch failed", "nodejs")
    ELSE FetchPayload(endpoint, get.status, ms, "nodejs")

\* McpToolsService.fetchExternalData (47-72): getForEntity throws a
\* ResourceAccessException when there is no response and, with the default error
\* handler, an HttpStatusCodeException for a 4xx or 5xx status; both are
\* RestClientExceptions and are caught
fetchExternalData(endpoint, get, ms) ==
    IF get.kind = "failed" THEN FetchFailure(endpoint, ms, get.cause, "java")
    ELSE IF get.status >= 400 THEN FetchFailure(endpoint, ms, "status", "java")
    ELSE FetchPayload(endpoint, get.status, ms, "java")

GoFetchData ==
    /\ treq.tool = "fetch_external_data" /\ tres["go"] = Pending
    /\ \E ms \in 0..MaxFetchMs : Answer("go", handleFetchData(treq.arg, treq.get["go"], ms))
    /\ ToolsIdle

NodeFetchData ==
    /\ treq.tool = "fetch_external_data" /\ tres["nodejs"] = Pending
    /\ \E ms \in 0..MaxFetchMs :
            Answer("nodejs", fetch_external_data(treq.arg, treq.get["nodejs"], ms))
    /\ ToolsIdle

JavaFetchData ==
    /\ treq.tool = "fetch_external_data" /\ tres["java"] = Pending
    /\ \E ms \in 0..MaxFetchMs :
            Answer("java", fetchExternalData(treq.arg, treq.get["java"], ms))
    /\ ToolsIdle

\* the endpoint the benchmark asks for (benchmark.js 152)
FetchEndpoints == {"http://mock-api:1080/api"}

\* the largest delay_ms each server accepts
GoMaxDelay == 5000
NodeMaxDelay == 5000
JavaMaxDelay == 5000

\* what a simulate_database_query handler did: the time it slept, in
\* milliseconds, and the payload it returned or the error it raised
DbRejected(slept) == [kind |-> "error", slept |-> slept]

DbPayload(query, delay_ms, stamp, server) ==
    [kind |-> "ok", query |-> query, delay_ms |-> delay_ms, timestamp |-> stamp,
     server_type |-> server, slept |-> delay_ms]

\* handleDatabaseQuery (378-391): the range test comes before time.Sleep
handleDatabaseQuery(query, delay_ms) ==
    IF delay_ms < 0 \/ delay_ms > GoMaxDelay THEN DbRejected(0)
    ELSE DbPayload(query, delay_ms, "RFC3339", "go")

\* simulate_database_query of index.js (119-145): the throw comes before setTimeout
simulate_database_query(query, delay_ms) ==
    IF delay_ms < 0 \/ delay_ms > NodeMaxDelay THEN DbRejected(0)
    ELSE DbPayload(query, delay_ms, "toISOString", "nodejs")

\* the variant of simulateDatabaseQuery that sleeps before it tests the range
simulateDatabaseQuerySleepFirst(query, delay_ms) ==
    IF delay_ms < 0 THEN DbRejected(0)
    ELSE IF delay_ms > JavaMaxDelay THEN DbRejected(delay_ms)
    ELSE DbPayload(query, delay_ms, "Instant.toString", "java")

\* McpToolsService.simulateDatabaseQuery (105-126): the throw comes before
\* Thread.sleep
simulateDatabaseQuery(query, delay_ms) ==
    IF delay_ms < 0 \/ delay_ms > JavaMaxDelay THEN DbRejected(0)
    ELSE DbPayload(query, delay_ms, "Instant.toString", "java")

GoDatabaseQuery ==
    /\ treq.tool = "simulate_database_query" /\ tres["go"] = Pending
    /\ Answer("go", handleDatabaseQuery(treq.query, treq.arg))
    /\ ToolsIdle

NodeDatabaseQuery ==
    /\ treq.tool = "simulate_database_query" /\ tres["nodejs"] = Pending
    /\ Answer("nodejs", simulate_database_query(treq.query, treq.arg))
    /\ ToolsIdle

JavaDatabaseQuery ==
    /\ treq.tool = "simulate_database_query" /\ tres["java"] = Pending
    /\ Answer("java", simulateDatabaseQuery(treq.query, treq.arg))
    /\ ToolsIdle

\* the delays the servers are asked for: the one of the benchmark (benchmark.js
\* 166), the ends of the accepted range and one on each side
DelayArgs == {-1, 0, 10, 4999, 5000, 5001}

ToolRequests ==
    {[tool |-> "calculate_fibonacci", arg |-> n] : n \in FibArgs}
    \cup {[tool |-> "simulate_database_query", arg |-> d, query |-> "SELECT * FROM benchmarks"] :
              d \in DelayArgs}
    \cup {[tool |-> "process_json_data", arg |-> d] : d \in ProcessArgs}
    \cup {[tool |-> "fetch_external_data", arg |-> e, get |-> g] :
              e \in FetchEndpoints, g \in [Servers -> GetOutcomes]}

\* SpecTools: the three servers are given the same tools/call
InitTools ==
    /\ NoParse /\ InitVU({0}) /\ InitMetrics /\ InitAux /\ InitEnd /\ NoOrch /\ NoNode /\ NoDir
    /\ treq \in ToolRequests
    /\ tres = [s \in Servers |-> Pending]

NextTools ==
    \/ GoFibonacci
    \/ NodeFibonacci
    \/ JavaFibonacciCall
    \/ GoProcessData
    \/ NodeProcessData
    \/ JavaProcessData
    \/ GoFetchData
    \/ NodeFetchData
    \/ JavaFetchData
    \/ GoDatabaseQuery
    \/ NodeDatabaseQuery
    \/ JavaDatabaseQuery

SpecTools == InitTools /\ [][NextTools]_vars

----------------------------------------------------------------------------
(* The Node.js server: the handler of POST /mcp (index.js 150-170).  Every   *)
(* await of the handler is a step, so the handlers of concurrent requests    *)
(* interleave.  A transport keeps, for every JSON-RPC id it was handed, the  *)
(* HTTP response the answer goes to; the clients of the harness all use the  *)
(* ids 1 and 2.                                                              *)

\* the transport of a handler that uses one module-level transport for all
\* requests (the pattern of index.js 440-442)
GlobalTransport(n) == 1

\* new StreamableHTTPServerTransport(...) (152-154): a new object
NewTransport(n) == n + 1

\* createMcpServer() (155): a new object
NewServer(n) == n + 2

\* the response closes: Node emits 'close' once, to the listeners it has then
CloseRes(rs) ==
    [rs EXCEPT !.closed = TRUE,
               !.cleanup = IF ~rs.closed /\ rs.listening THEN "due" ELSE @]

\* a write to a response; nothing reaches a response that has closed
WriteRes(rs, from, of) ==
    IF rs.closed THEN rs ELSE [rs EXCEPT !.wrote = @ \cup {[from |-> from, of |-> of]}]

\* the catch block (164-169): a 500 with the error, unless headers were sent
CatchBlock(r) ==
    resp' = [resp EXCEPT ![r] = IF resp[r].wrote = {} THEN CloseRes(WriteRes(@, 0, r)) ELSE @]

NodeIdle ==
    UNCHANGED <<parseVars, vuVars, metricVars, auxVars, endVars, orchVars, toolVars, dirVars>>

\* a POST /mcp arrives: the handler constructs the transport and the server (151-155)
Arrive(r) ==
    /\ hpc[r] = "idle"
    /\ \E i \in RpcIds :
        conn' = [conn EXCEPT ![r] = [rpc |-> i, transport |-> NewTransport(created),
                                     server |-> NewServer(created), served |-> FALSE]]
    /\ created' = created + 2
    /\ hpc' = [hpc EXCEPT ![r] = "connect"]
    /\ UNCHANGED <<routes, closedObj, resp>>
    /\ NodeIdle

\* await server.connect(transport) (158): it returns or it throws
Connect(r) ==
    /\ hpc[r] = "connect"
    /\ \E ok \in BOOLEAN :
        IF ok THEN hpc' = [hpc EXCEPT ![r] = "handle"] /\ UNCHANGED resp
        ELSE hpc' = [hpc EXCEPT ![r] = "done"] /\ CatchBlock(r)
    /\ UNCHANGED <<conn, created, routes, closedObj>>
    /\ NodeIdle

\* transport.handleRequest(req, res, req.body) is called (159): the transport
\* notes the response for the JSON-RPC id and hands the message to the server,
\* or it throws
HandleRequest(r) ==
    /\ hpc[r] = "handle"
    /\ \E ok \in BOOLEAN :
        IF ok
        THEN /\ routes' = [routes EXCEPT ![conn[r].transport][conn[r].rpc] = r]
             /\ hpc' = [hpc EXCEPT ![r] = "handling"]
             /\ UNCHANGED resp
        ELSE /\ hpc' = [hpc EXCEPT ![r] = "done"]
             /\ CatchBlock(r)
             /\ UNCHANGED routes
    /\ UNCHANGED <<conn, created, closedObj>>
    /\ NodeIdle

\* the server has the answer to the message of r: the transport writes it to the
\* response it holds for the JSON-RPC id and ends that response
Respond(r) ==
    /\ hpc[r] \in {"handling", "register", "done"}
    /\ routes[conn[r].transport][conn[r].rpc] # 0
    /\ ~conn[r].served
    /\ conn[r].transport \notin closedObj
    /\ LET to == routes[conn[r].transport][conn[r].rpc]
       IN resp' = [resp EXCEPT ![to] = CloseRes(WriteRes(@, conn[r].transport, r))]
    /\ conn' = [conn EXCEPT ![r].served = TRUE]
    /\ UNCHANGED <<hpc, created, routes, closedObj>>
    /\ NodeIdle

\* the client goes away before the response has ended
ClientAbort(r) ==
    /\ hpc[r] # "idle"
    /\ ~resp[r].closed
    /\ resp' = [resp EXCEPT ![r] = CloseRes(@)]
    /\ UNCHANGED <<hpc, conn, created, routes, closedObj>>
    /\ NodeIdle

\* the await of handleRequest returns (159)
HandleReturn(r) ==
    /\ hpc[r] = "handling"
    /\ hpc' = [hpc EXCEPT ![r] = "register"]
    /\ UNCHANGED <<conn, created, routes, closedObj, resp>>
    /\ NodeIdle

\* res.on('close', ...) (160-163)
Register(r) ==
    /\ hpc[r] = "register"
    /\ resp' = [resp EXCEPT ![r].listening = TRUE]
    /\ hpc' = [hpc EXCEPT ![r] = "done"]
    /\ UNCHANGED <<conn, created, routes, closedObj>>
    /\ NodeIdle

\* the 'close' listener runs: transport.close(), server.close() (161-162)
Cleanup(r) ==
    /\ resp[r].cleanup = "due"
    /\ closedObj' = closedObj \cup {conn[r].transport, conn[r].server}
    /\ resp' = [resp EXCEPT ![r].cleanup = "done"]
    /\ UNCHANGED <<hpc, conn, created, routes>>
    /\ NodeIdle

\* SpecNode: MaxReqs concurrent POST /mcp requests
InitNode ==
    /\ NoParse /\ InitVU({0}) /\ InitMetrics /\ InitAux /\ InitEnd /\ NoOrch /\ NoTool
    /\ NoNode /\ NoDir

\* the steps of the server
ServerStep(r) ==
    \/ Connect(r)
    \/ HandleRequest(r)
    \/ Respond(r)
    \/ HandleReturn(r)
    \/ Register(r)
    \/ Cleanup(r)

NextNode ==
    \E r \in Reqs :
        \/ Arrive(r)
        \/ ClientAbort(r)
        \/ ServerStep(r)

SpecNode == InitNode /\ [][NextNode]_vars

\* the event loop runs every callback that is ready
SpecNodeLive == InitNode /\ [][NextNode]_vars /\ \A r \in Reqs : WF_vars(ServerStep(r))

----------------------------------------------------------------------------
(* The Consolidator: consolidate.py, run by main at run_benchmark.sh 222 on  *)
(* the results directory. The script is not among the sources; what it does  *)
(* is taken from the specification, section 4.7: it reads the Run Summary    *)
(* and the Resource Sample Series of every target, ranks the targets by      *)
(* lowest average latency, lowest p99, highest throughput and lowest memory  *)
(* footprint, and writes one combined report (summary.json, 229) into the    *)
(* directory it read.                                                        *)

MaxRuns == 2
MetricValues == {1, 2}
Dims == {"avg", "p99", "rps", "mem"}

\* what a target left in the directory: nothing (it was skipped), or its
\* summary and its resource series
Artifacts ==
    {NoArtifact} \cup
    {[present |-> TRUE, sessions |-> 1, avg |-> m.avg, p99 |-> m.p99, rps |-> m.rps, mem |-> m.mem] :
        m \in [Dims -> MetricValues]}

\* the targets that left artifacts, by their place in the list of targets
Present(art) == {i \in DOMAIN Targets : art[Targets[i]].present}

\* i is ranked before j on dimension k: the better value first (the lower one,
\* or the higher one for throughput), equal values in the order of the targets
RankedBefore(art, k, i, j) ==
    LET a == art[Targets[i]][k]
        b == art[Targets[j]][k]
    IN  \/ IF k = "rps" THEN a > b ELSE a < b
        \/ a = b /\ i < j

\* the targets in the order of dimension k
RankBy(art, k) ==
    LET P == Present(art)
        Place(i) == 1 + Cardinality({j \in P : RankedBefore(art, k, j, i)})
    IN  [p \in 1..Cardinality(P) |-> Targets[CHOOSE i \in P : Place(i) = p]]

\* a variant that counts the files of the directory, its own report among them
consolidateCountingFiles(d) ==
    [written |-> TRUE,
     files |-> Cardinality(Present(d.art)) + (IF d.combined.written THEN 1 ELSE 0),
     targets |-> [t \in TargetNames |-> d.art[t].sessions],
     by_avg |-> RankBy(d.art, "avg"),
     by_p99 |-> RankBy(d.art, "p99"),
     by_rps |-> RankBy(d.art, "rps"),
     by_mem |-> RankBy(d.art, "mem")]

\* the combined report of directory d: every target with its sessions (none
\* for a target without artifacts) and the four rankings
consolidate(d) ==
    [written |-> TRUE,
     targets |-> [t \in TargetNames |-> d.art[t].sessions],
     by_avg |-> RankBy(d.art, "avg"),
     by_p99 |-> RankBy(d.art, "p99"),
     by_rps |-> RankBy(d.art, "rps"),
     by_mem |-> RankBy(d.art, "mem")]

\* one run of the Consolidator on the directory: the report is written into
\* the directory that was read
RunConsolidator ==
    /\ Len(reports) < MaxRuns
    /\ LET r == consolidate(dir)
       IN  /\ dir' = [dir EXCEPT !.combined = r]
           /\ reports' = Append(reports, r)
    /\ UNCHANGED <<parseVars, vuVars, metricVars, auxVars, endVars, orchVars, toolVars, nodeVars>>

\* SpecConsolidate: a results directory after a run, any target skipped or not
InitConsolidate ==
    /\ NoParse /\ InitVU({0}) /\ InitMetrics /\ InitAux /\ InitEnd /\ NoOrch /\ NoTool /\ NoNode
    /\ \E art \in [TargetNames -> Artifacts] : dir = [art |-> art, combined |-> NoReport]
    /\ reports = <<>>

NextConsolidate == RunConsolidator

SpecConsolidate == InitConsolidate /\ [][NextConsolidate]_vars

----------------------------------------------------------------------------
(* Properties *)

Methods(log) == [i \in 1..Len(log) |-> log[i].m]
IsPrefix(a, b) == Len(a) <= Len(b) /\ SubSeq(b, 1, Len(a)) = a

\* the requests of a complete session of v, in order
SessionOrder(v) == <<"initialize", "notifications/initialized", InvokeMethod(v), "DELETE">>

\* the number of requests v's running session has sent when v is at pc[v]
SentAt(v) ==
    CASE pc[v] = "initialize" -> {0}
      [] pc[v] = "notify" -> {1}
      [] pc[v] = "call" -> {2}
      [] pc[v] = "teardown" -> {3}
      [] pc[v] \in {"finish", "next", "sleep"} -> {3, 4}
      [] OTHER -> {0}

\* C1: in every session the requests go out in the order initialize ->
\* notifications/initialized -> tools/call -> DELETE: what a session has sent is
\* always a prefix of that order, each request is sent only when its predecessor
\* has returned (the session stands at the matching step), and none is sent twice.
C1_StrictOrder ==
    \A v \in VUs :
        /\ IsPrefix(Methods(sent[v]), SessionOrder(v))
        /\ Len(sent[v]) \in SentAt(v)

C1_Witness ==
    \E v \in VUs : pc[v] = "finish" /\ Methods(sent[v]) = SessionOrder(v)
                   /\ InvokeMethod(v) = "tools/call"

\* the step in which v ends a scenario session
FinishStep(v) == pc[v] = "finish" /\ pc'[v] # "finish"

HasField(o, key) == o.t = "object" /\ \E i \in 1..Len(o.kv) : o.kv[i][1] = Lit(key)

\* mcp_errors incremented by one and a 'true' sample added to mcp_error_rate
MarkedFailed ==
    /\ mcpErrors' = mcpErrors + 1
    /\ mcpErrorRate' = [trues |-> mcpErrorRate.trues + 1, total |-> mcpErrorRate.total + 1]

\* a 'false' sample added to mcp_error_rate, mcp_errors left alone
MarkedPassed ==
    /\ mcpErrors' = mcpErrors
    /\ mcpErrorRate' = [trues |-> mcpErrorRate.trues, total |-> mcpErrorRate.total + 1]

\* C2 as stated: a session is marked failed whenever the tools/call response
\* decodes to "no result", or the payload carries an error field, or the payload
\* carries no result field.
C2_Original ==
    [][\A v \in VUs :
        (FinishStep(v) /\ (\/ callResult[v] = NoResult
                           \/ HasField(callResult[v], "error")
                           \/ ~HasField(callResult[v], "result")))
        => MarkedFailed]_vars

\* C2 amended: a session is marked failed whenever the tools/call response decodes
\* to "no result", or the payload carries an error field whose value is truthy
\* (an error object; not null, false, 0 or ""), or the payload carries no result
\* field.
C2_MarkedFailed ==
    [][\A v \in VUs :
        (FinishStep(v) /\ (\/ callResult[v] = NoResult
                           \/ (HasField(callResult[v], "error")
                               /\ Truthy(Get(callResult[v], "error")))
                           \/ ~HasField(callResult[v], "result")))
        => MarkedFailed]_vars

\* a session has just ended with v's callResult and marks still in place
JustFinished(v) == pc[v] = "next"

C2_Witness ==
    /\ JustFinished(1) /\ marked[1] /\ mcpErrors = 1
    /\ callResult[1].t = "object" /\ ~HasField(callResult[1], "result")
    /\ ~HasField(callResult[1], "error")

\* a payload with a result and without an error, as the tracking of line 126 sees it
WellFormed(cr) == Truthy(cr) /\ Truthy(Get(cr, "result")) /\ ~Truthy(Get(cr, "error"))

C4_TeardownFrame ==
    [][\A v \in VUs :
        /\ (pc[v] = "teardown" /\ pc'[v] # "teardown")
            => UNCHANGED <<mcpErrors, mcpErrorRate, trend, checks, marked, recorded,
                           callResult, totalDuration, initDur, callDur>>
        /\ FinishStep(v)
            => /\ marked'[v] = atCall[v].err
               /\ IF atCall[v].err THEN MarkedFailed ELSE MarkedPassed
               /\ recorded'[v] = [tool |-> tool[v], init |-> atCall[v].init,
                                  call |-> atCall[v].call, total |-> atCall[v].total]]_vars

C4_Witness ==
    /\ JustFinished(1) /\ delOutcome[1] = "timeout"
    /\ ~marked[1] /\ mcpErrors = 0 /\ lastCheck[1]

\* C5: a failure at the handshake (transport failure, undecodable body, protocol
\* error, no token) never aborts the session: whenever a session is over, the
\* acknowledge and the tools/call (tools/list) were sent after the handshake.
C5_HandshakeFailureContinues ==
    \A v \in VUs :
        (pc[v] \in {"teardown", "finish", "next", "sleep"})
        => /\ Len(sent[v]) >= 3
           /\ sent[v][1].m = "initialize"
           /\ sent[v][2].m = "notifications/initialized"
           /\ sent[v][3].m = InvokeMethod(v)

C5_Witness ==
    /\ pc[1] = "finish" /\ initOutcome[1] = "transport" /\ sessionId[1] = NoTok
    /\ Len(sent[1]) = 3 /\ sent[1][3].m = "tools/call"

\* C6: every request a session sends with an Mcp-Session-Id header carries the
\* token the target returned to that same session; never the token of another
\* virtual user's session or of an earlier session; the handshake carries none.
C6_OwnToken ==
    \A v \in VUs : \A i \in 1..Len(sent[v]) :
        /\ sent[v][i].m = "initialize" => sent[v][i].sid = NoTok
        /\ sent[v][i].sid # NoTok
            => /\ sent[v][i].sid = InitToken(initOutcome[v], v)
               /\ sent[v][i].sid.vu = v
               /\ sent[v][i].sid.it = iter[v]
               /\ sent[v][i].sid.tl = tool[v]

C6_Witness ==
    \E v, w \in VUs :
        /\ v # w /\ tool[v] > 1
        /\ Len(sent[v]) = 4 /\ sent[v][4].sid = FreshToken(v)
        /\ Len(sent[w]) >= 2 /\ sent[w][2].sid = FreshToken(w)

\* sessions v has completed
SessionsDone(v) ==
    (iter[v] - 1) * ListIdx + (tool[v] - 1) + (IF pc[v] = "done" THEN 1 ELSE 0)

\* handshake and invoke/listing requests in a log
RECURSIVE CountSteps(_)
CountSteps(log) ==
    IF log = <<>> THEN 0
    ELSE (IF Head(log).m \in {"initialize", "tools/call", "tools/list"} THEN 1 ELSE 0)
         + CountSteps(Tail(log))

RECURSIVE SumVUs(_, _)
SumVUs(f, n) == IF n = 0 THEN 0 ELSE f[n] + SumVUs(f, n - 1)

\* C7: under any interleaving mcp_requests equals the number of handshake steps
\* plus invoke/listing steps made so far, 2 for every completed session;
\* acknowledge and teardown requests never count; at the end of the run it is
\* exactly 2 per session.
C7_RequestCount ==
    /\ mcpRequests = SumVUs([v \in VUs |-> 2 * SessionsDone(v) + CountSteps(sent[v])], NumVUs)
    /\ (\A v \in VUs : pc[v] = "done") => mcpRequests = 2 * ListIdx * MaxIter * NumVUs

C7_Witness ==
    /\ \A v \in VUs : pc[v] = "done"
    /\ mcpRequests = 2 * ListIdx * MaxIter * NumVUs
    /\ httpReqs > mcpRequests

\* C8 as stated: for every completed session the total recorded in
\* mcp_full_session_duration is at least the sum of the durations recorded for its
\* handshake and its invoke step (all in ticks).
C8_TotalCoversSteps ==
    \A v \in VUs :
        recorded[v].tool \in 1..Len(TOOLS)
        => recorded[v].total * TicksPerMs >= recorded[v].init + recorded[v].call

\* C9: a body whose trimmed text starts with '{' or '[' and is a well-formed JSON
\* document decodes to exactly the value of the whole trimmed body.
C9_PlainJson ==
    (ppc = "done" /\ body.present
        /\ (StartsWith(Trim(body.text), <<"{">>) \/ StartsWith(Trim(body.text), <<"[">>))
        /\ JSONparse(Trim(body.text)).ok)
    => parsed = JSONparse(Trim(body.text)).val

C9_Witness ==
    /\ ppc = "done"
    /\ body = Text(<<SP, LF, "[", "1", "]", LF>>)
    /\ parsed = VArr(<<VNum(1)>>)

\* the lines of a body, as parseBody splits them
BodyLines == Split(Trim(body.text))

DirectlyParseable ==
    /\ (StartsWith(Trim(body.text), <<"{">>) \/ StartsWith(Trim(body.text), <<"[">>))
    /\ JSONparse(Trim(body.text)).ok

\* a line that starts with 'data:' and whose trimmed remainder starts with '{' and
\* parses as JSON
GoodFrame(line) ==
    /\ StartsWith(line, DataMarker)
    /\ StartsWith(Trim(Substring(line, 5)), <<"{">>)
    /\ JSONparse(Trim(Substring(line, 5))).ok

FrameValue(line) == JSONparse(Trim(Substring(line, 5))).val

\* C10 as stated: for a body that is not directly parseable as JSON, parseBody
\* returns the payload of the first line that starts with 'data:' and whose trimmed
\* remainder starts with '{' and parses as JSON.
C10_Original ==
    (ppc = "done" /\ body.present /\ ~DirectlyParseable)
    => \A i \in 1..Len(BodyLines) :
        (GoodFrame(BodyLines[i]) /\ \A j \in 1..(i - 1) : ~GoodFrame(BodyLines[j]))
        => parsed = FrameValue(BodyLines[i])

\* C10 amended: ... the payload of the first line whose text, with the white space
\* around it trimmed, starts with 'data:' and whose trimmed remainder starts with
\* '{' and parses as JSON; frames before it that fail to parse are skipped and
\* frames after it are ignored.
C10_FirstFrame ==
    (ppc = "done" /\ body.present /\ ~DirectlyParseable)
    => \A i \in 1..Len(BodyLines) :
        (GoodFrame(Trim(BodyLines[i]))
            /\ \A j \in 1..(i - 1) : ~GoodFrame(Trim(BodyLines[j])))
        => parsed = FrameValue(Trim(BodyLines[i]))

C10_Witness ==
    /\ ppc = "done"
    /\ body = Text(Join(<<DataMarker \o <<"{">>, DataMarker \o ObjA1,
                          DataMarker \o <<SP>> \o ObjB2 \o <<CR>> >>))
    /\ parsed = VObj(<< <<"\"a\"", VNum(1)>> >>)

\* a body none of whose parts parseBody can decode: the trimmed text is not a JSON
\* document opening with '{' or '[', and no line is a data: frame with an object
NothingParses ==
    /\ ~DirectlyParseable
    /\ \A i \in 1..Len(BodyLines) : ~GoodFrame(Trim(BodyLines[i]))

\* C11: for every body with no parseable JSON (missing, empty, white space only,
\* malformed JSON, an event stream without a parseable data frame) parseBody
\* returns "no result" (null) as a value; no exception leaves it.
C11_NullNotError ==
    (ppc = "done" /\ NothingParses) => (parsed = NoResult /\ parsed # VThrow)

C11_Witness ==
    /\ ppc = "done"
    /\ body = Text(Join(<< <<"{", "\"a\"", ":">>, DataMarker \o <<"{">> >>))
    /\ parsed = NoResult

\* the declared order of an iteration's sessions
DeclaredOrder == <<"calculate_fibonacci", "fetch_external_data", "process_json_data",
                   "simulate_database_query", "tools/list">>

\* C12: in every iteration of every virtual user the sessions run in the declared
\* order calculate_fibonacci, fetch_external_data, process_json_data,
\* simulate_database_query, then exactly one tools/list session, then the pause:
\* what an iteration has started is always a prefix of that order with nothing
\* left out, whatever the earlier sessions answered, and the pause is reached
\* only with all five started.
C12_FixedOrder ==
    \A v \in VUs :
        /\ IsPrefix(ran[v], DeclaredOrder)
        /\ pc[v] = "initialize" => Len(ran[v]) = tool[v] - 1
        /\ pc[v] \in {"notify", "call", "teardown", "finish", "next", "sleep"}
            => Len(ran[v]) = tool[v]
        /\ pc[v] = "sleep" => ran[v] = DeclaredOrder

C12_Witness ==
    /\ pc[1] = "sleep" /\ ran[1] = DeclaredOrder
    /\ mcpErrors = Len(TOOLS) /\ httpFailed > 0

\* C13 as stated: once end-of-run has been signalled, a virtual user in the middle
\* of an iteration never starts another scenario session or the listing session.
C13_NoNewSessionAfterEnd ==
    [][\A v \in VUs :
        (stopping /\ tool[v] > 1 /\ pc[v] = "initialize") => pc'[v] # "notify"]_vars

\* C14 as stated: the run is marked failed exactly when the transport failure
\* rate of the whole run exceeds 5%; at exactly 5% it is not marked failed.
C14_FailedIffAboveCeiling ==
    verdict # "pending"
    => (verdict = "failed" <=> httpFailed * 100 > ThresholdPct * httpReqs)

\* every key of the summary's tools object
AllToolKeys == {"calculate_fibonacci", "fetch_external_data", "process_json_data",
                "simulate_database_query", "_initialize", "_tools_list"}

\* the summary holds the session latency and all six per-tool distributions, each
\* over all samples of its metric
FullDistributions ==
    /\ summary.session = [present |-> TRUE, count |-> trend["mcp_full_session_duration"]]
    /\ DOMAIN summary.tools = AllToolKeys
    /\ summary.tools["calculate_fibonacci"].count = trend["mcp_fibonacci_duration"]
    /\ summary.tools["fetch_external_data"].count = trend["mcp_fetch_duration"]
    /\ summary.tools["process_json_data"].count = trend["mcp_json_process_duration"]
    /\ summary.tools["simulate_database_query"].count = trend["mcp_db_query_duration"]
    /\ summary.tools["_initialize"].count = trend["mcp_initialize_duration"]
    /\ summary.tools["_tools_list"].count = trend["mcp_tools_list_duration"]

\* C15: when the threshold is breached the summary is still emitted in full: it
\* holds the HTTP counters and the mcp counters of the run and, for a run that got
\* through an iteration, the session latency and every per-tool distribution, as
\* the summary of a passing run does.
C15_SummaryInFull ==
    (summary.emitted /\ verdict = "failed")
    => /\ summary.http = [total_requests |-> httpReqs, failed_requests |-> httpFailed]
       /\ summary.mcp = [total_mcp_requests |-> mcpRequests, mcp_errors |-> mcpErrors,
                         error_rate |-> mcpErrorRate]
       /\ trend["mcp_tools_list_duration"] > 0 => FullDistributions

C15_Witness ==
    /\ summary.emitted /\ verdict = "failed"
    /\ httpFailed = Len(DeclaredOrder) /\ httpReqs = 4 * Len(DeclaredOrder)
    /\ DOMAIN summary.tools = AllToolKeys /\ summary.session.present

\* C16 as stated: for a target that returns an error field on every tools/call the
\* summary has mcp error rate 1.0, the run is flagged threshold-breached, and the
\* full latency distributions are emitted.
C16_ErrorTargetBreached ==
    summary.emitted
    => /\ summary.mcp.error_rate.total > 0
       /\ summary.mcp.error_rate.trues = summary.mcp.error_rate.total
       /\ verdict = "failed"
       /\ FullDistributions


\* the target's warmup is running, or its stats collector, or its k6 run
Measuring == opc = "warmup" \/ sampler # {} \/ load # "none"

\* C17: at every moment while warmup, resource sampling or load generation is
\* running for a target, no other target server is running, also after a stop
\* command that reported failure.
C17_OnlyTargetRunning == Measuring => running \subseteq {Target}


\* benchmark_server did `what` for the t-th target
Has(t, what) == \E i \in DOMAIN steps[t] : steps[t][i] = what

\* the steps that touch a target after its health check
MeasureSteps == {"warmup", "sampler_start", "load_start", "load_end", "load_failed", "sampler_stop"}

\* the loop of main is over
LoopDone == opc \in {"finalstop", "consolidate", "end"}

\* C18: a target that answered no health probe within max_wait rounds is skipped,
\* and only it: it gets no warmup, no stats collector and no k6 run, and the
\* script goes on with the next target.
C18_SkipThatTargetOnly ==
    \A t \in 1..Len(Targets) :
        Has(t, "skip") =>
            /\ \A w \in MeasureSteps : ~Has(t, w)
            /\ tgt = t => (opc = "next" \/ LoopDone) /\ sampler = {} /\ load = "none"
            /\ opc # "aborted"
            /\ tgt >= t
            /\ LoopDone => \A u \in t + 1..Len(Targets) : steps[u] # <<>>

\* the first target was skipped and the second is being warmed up
C18_Witness == Has(1, "skip") /\ tgt = 2 /\ opc = "warmup"


IsTarget(x) == \E t \in DOMAIN Targets : Targets[t] = x

\* the targets benchmark_server was called for, in the order of the calls
Attempted == SelectSeq(mainLog, IsTarget)

\* a step of the t-th target's pipeline failed
StepFailed(t) == Has(t, "stop_failed") \/ Has(t, "start_failed") \/ Has(t, "skip") \/ Has(t, "load_failed")

\* C19: a failure in a step of a target's pipeline never aborts the run: the
\* targets are attempted once each in the order of the list, and after the last
\* one the final stop and the consolidation are run once each.
C19_EveryTargetOnce ==
    /\ opc = "aborted" => \A t \in DOMAIN Targets : steps[t] = <<>>
    /\ \E n \in 0..Len(Targets) :
        /\ Attempted = SubSeq(Targets, 1, n)
        /\ \A t \in DOMAIN Targets : steps[t] # <<>> <=> t <= n
        /\ LoopDone => n = Len(Targets)
    /\ opc = "consolidate" => mainLog = <<"mock_api">> \o Targets \o <<"stop_all">>
    /\ opc = "end" => mainLog = <<"mock_api">> \o Targets \o <<"stop_all", "consolidate">>

\* the run got to its end although a step failed for every target: a start, a
\* health check and a k6 run
C19_Witness ==
    /\ opc = "end"
    /\ Has(1, "start_failed")
    /\ Has(2, "load_failed")
    /\ Has(3, "skip")
    /\ \A t \in DOMAIN Targets : StepFailed(t)


\* the phases of a healthy target in the order of benchmark_server
PhaseOrder == <<"warmup", "sampler_start", "load_start", "load_end", "sampler_stop">>

\* the k6 run has ended, with whatever status
Phase(x) == IF x = "load_failed" THEN "load_end" ELSE x

\* what benchmark_server did for the t-th target after its health check passed
AfterHealth(t) ==
    LET i == CHOOSE j \in DOMAIN steps[t] : steps[t][j] = "healthy"
    IN  [k \in 1..Len(steps[t]) - i |-> Phase(steps[t][i + k])]

\* C20: for a target that passed its health check the phases come in the order
\* warmup, stats collector started, k6 started, k6 ended, stats collector
\* stopped; the collector has been started and not yet stopped for the whole k6
\* run (sampler holds the collectors in that state), no warmup runs during it,
\* and the collector is stopped before the next target begins, whatever the
\* status of the k6 run.
C20_PhaseOrder ==
    /\ \A t \in DOMAIN Targets :
        Has(t, "healthy") =>
            /\ Len(AfterHealth(t)) <= Len(PhaseOrder)
            /\ AfterHealth(t) = SubSeq(PhaseOrder, 1, Len(AfterHealth(t)))
            /\ tgt > t \/ opc \in {"next", "finalstop", "consolidate", "end"}
                   => AfterHealth(t) = PhaseOrder
    /\ load # "none" => load = Target /\ sampler = {Target} /\ opc = "loadend"
    /\ opc = "warmup" => load = "none" /\ sampler = {}
    /\ sampler # {} => sampler = {Target} /\ opc \in {"load", "loadend", "samplerstop", "samplerwait"}

\* the k6 run of the first target failed, its collector was stopped all the same
\* and the second target begins
C20_Witness ==
    /\ Has(1, "healthy") /\ Has(1, "load_failed") /\ Has(1, "sampler_stop")
    /\ tgt = 2 /\ opc = "stop"
    /\ sampler = {}


\* the collector was signalled and the script waits for it
WaitingForSampler == opc = "samplerwait"

\* C21: after signalling the stats collector the script waits a bounded time and
\* then goes on: a collector that never exits cannot hold it for ever.
C21_BoundedSamplerWait == WaitingForSampler ~> ~WaitingForSampler


\* the last round of wait_for_health sent every probe and none was answered
RoundFailed == Len(probed) = Len(Probes) /\ \A i \in DOMAIN probed : ~probed[i].answered

\* what holds of the rounds of wait_for_health in every state
HealthRoundsInOrder ==
    /\ Len(probed) <= Len(Probes)
    /\ \A i \in DOMAIN probed :
        /\ probed[i].probe = Probes[i]
        /\ probed[i].answered => i = Len(probed)
    /\ opc = "health" => elapsed < max_wait /\ (elapsed > 0 => RoundFailed)
    /\ opc = "warmup" => probed # <<>> /\ probed[Len(probed)].answered
    /\ \A t \in DOMAIN Targets :
        Has(t, "skip") =>
            /\ steps[t][Len(steps[t])] = "skip"
            /\ tgt = t => opc # "health" /\ elapsed = max_wait /\ RoundFailed

\* C22: wait_for_health always terminates: a round sends the probes in the order
\* /health, /actuator/health, initialize and ends with success at the first
\* answered one, the rest unsent; after max_wait rounds without an answer it
\* returns failure and polls no more.
C22_WaitForHealthTerminates ==
    /\ []HealthRoundsInOrder
    /\ (opc = "health") ~> (opc # "health")

\* the first target was given up after max_wait rounds, the second was answered
\* on /actuator/health, the initialize probe unsent
C22_Witness ==
    /\ Has(1, "skip") /\ tgt = 2 /\ opc = "warmup"
    /\ Len(probed) = 2 /\ probed[2].answered


\* the requests of a session, by method
RequestMethods == {"initialize", "notifications/initialized", "tools/call", "tools/list", "DELETE"}

\* how many requests of method m the log holds
TimesSent(log, m) == Cardinality({i \in DOMAIN log : log[i].m = m})

\* C23: no step is retried within a session: one execution sends at most one
\* initialize, one notifications/initialized, one tools/call (or tools/list) and
\* one DELETE, whatever the outcome of any of them.
C23_NoRetry ==
    \A v \in VUs :
        /\ \A m \in RequestMethods : TimesSent(sent[v], m) <= 1
        /\ TimesSent(sent[v], "tools/call") + TimesSent(sent[v], "tools/list") <= 1

\* a session whose handshake failed at the transport level went on to its end
\* with one request of each kind
C23_Witness ==
    \E v \in VUs :
        /\ pc[v] = "finish"
        /\ initOutcome[v] = "transport"
        /\ Methods(sent[v]) = <<"initialize", "notifications/initialized", "tools/call">>


\* the step in which v's tools/call returns
CallStep(v) == pc[v] = "call" /\ pc'[v] # "call" /\ tool[v] # ListIdx

\* C24: a tools/call response that was delivered (an HTTP response arrived) and
\* whose body decodes to "no result" is recorded as a protocol error (mcp_errors,
\* mcp_error_rate) and does not count toward http_req_failed.
C24_NoResultIsProtocolError ==
    [][\A v \in VUs :
        /\ (CallStep(v) /\ atCall'[v].status # 0 /\ callResult'[v] = NoResult)
            => httpFailed' = httpFailed
        /\ (FinishStep(v) /\ atCall[v].status # 0 /\ callResult[v] = NoResult)
            => MarkedFailed]_vars


\* what the end of a session of v records when only the check fails: a failed
\* check, a 'false' sample in mcp_error_rate, no error, no failed request, and the
\* three latency samples of any session
OnlyFailedCheck(v) ==
    /\ mcpErrors' = mcpErrors
    /\ mcpErrorRate' = [trues |-> mcpErrorRate.trues, total |-> mcpErrorRate.total + 1]
    /\ httpFailed' = httpFailed /\ httpReqs' = httpReqs
    /\ checks' = [checks EXCEPT !.fails = @ + 1]
    /\ trend' = TrendAdd(TrendAdd(TrendAdd(trend, "mcp_initialize_duration"),
                                  TOOLS[tool[v]].metric), "mcp_full_session_duration")
    /\ recorded'[v] = [tool |-> tool[v], init |-> initDur[v], call |-> callDur[v],
                       total |-> totalDuration[v]]

\* C25 as stated: a payload decoded with a result field and no error field that the
\* scenario's predicate rejects is recorded only as a failed check: the transport
\* counters and mcp_errors / mcp_error_rate record no error, and the latency
\* samples are those of a passing session.
C25_Original ==
    [][\A v \in VUs :
        (FinishStep(v) /\ ~ToolCheck(tool[v], callResult[v])
         /\ HasField(callResult[v], "result") /\ ~HasField(callResult[v], "error"))
        => OnlyFailedCheck(v)]_vars

\* C25 amended: a payload whose result field is truthy (not null, false, 0 or "")
\* and whose error field is absent or falsy, rejected by the scenario's predicate,
\* is recorded only as a failed check: no failed request, mcp_errors unchanged, a
\* 'false' sample in mcp_error_rate, and the latency samples of a passing session.
C25_ValidationTrackedApart ==
    [][\A v \in VUs :
        (FinishStep(v) /\ ~ToolCheck(tool[v], callResult[v]) /\ WellFormed(callResult[v]))
        => OnlyFailedCheck(v)]_vars

\* the process_json_data session ended with a rejected payload: one failed check,
\* its latency samples recorded, no error and no failed request
C25_Witness ==
    /\ JustFinished(1) /\ recorded[1].tool = 3
    /\ callResult[1] = Decoded["wrong"]
    /\ ~lastCheck[1] /\ ~marked[1]
    /\ httpFailed = 0
    /\ trend["mcp_json_process_duration"] = 1


\* the text of the first content item of a payload, read by the shape of the
\* payload: an object with a result object with a content array of objects
FirstItemText(r) ==
    IF r.t # "object" THEN VUndef
    ELSE LET res == Get(r, "result") IN
        IF res.t # "object" THEN VUndef
        ELSE LET c == Get(res, "content") IN
            IF c.t # "array" \/ c.el = <<>> \/ c.el[1].t # "object" THEN VUndef
            ELSE Get(c.el[1], "text")

\* the decoded text of the first content item, when it decodes to an object
DecodedItem(r) ==
    LET d == ParseCoerced(FirstItemText(r)) IN
    IF d.ok /\ d.val.t = "object" THEN d.val ELSE VObj(<<>>)

\* a predicate was applied to the decoded response
Checked(i) == ppc = "checked" /\ checked.tool = i

\* C26: the calculate_fibonacci predicate gives true exactly when the result
\* field decoded from the text of the first content item is the number 55; for
\* every other payload it gives false, and it never throws.
C26_FibonacciCheck ==
    Checked(1) =>
        /\ checked.value \in {VBool(TRUE), VBool(FALSE)}
        /\ checked.value = VBool(TRUE) <=> Get(DecodedItem(parsed), "result") = VNum(55)
        /\ checked.value = VBool(TRUE) <=> fibCheck(parsed)

\* the text of the first item is no JSON: JSON.parse throws inside the predicate,
\* which gives false
C26_Witness ==
    /\ Checked(1)
    /\ FirstItemText(parsed) = VStr("\"<notjson>\"")
    /\ ParsedText(parsed) = VThrow
    /\ checked.value = VBool(FALSE)


\* the transformed_data of the decoded first item, when it is an object
DecodedTransformed(r) ==
    LET td == Get(DecodedItem(r), "transformed_data") IN
    IF td.t = "object" THEN td ELSE VObj(<<>>)

\* C27: the process_json_data predicate gives true exactly when
\* transformed_data.name decoded from the text of the first content item is the
\* string "BENCHMARK"; for every other payload, one without transformed_data
\* among them, it gives false, and it never throws.
C27_ProcessJsonCheck ==
    Checked(3) =>
        /\ checked.value \in {VBool(TRUE), VBool(FALSE)}
        /\ checked.value = VBool(TRUE)
            <=> Get(DecodedTransformed(parsed), "name") = VStr("\"BENCHMARK\"")
        /\ checked.value = VBool(TRUE) <=> jsonCheck(parsed)

\* the decoded text has no transformed_data: reading its name throws inside the
\* predicate, which gives false
C27_Witness ==
    /\ Checked(3)
    /\ FirstItemText(parsed) = VStr("\"<fib>\"")
    /\ Get(ParsedText(parsed), "transformed_data") = VUndef
    /\ checked.value = VBool(FALSE)


\* the servers that have answered the call
Answered == {s \in Servers : tres[s] # Pending}

\* the Fibonacci numbers the claim names
FibLandmarks == <<[n |-> 0, f |-> 0], [n |-> 1, f |-> 1], [n |-> 10, f |-> 55],
                  [n |-> 40, f |-> 102334155]>>

\* C28: for every integer n with 0 <= n <= 40 the Go, Node.js and Java servers
\* return the same input and result, the n-th Fibonacci number (F(0) = 0,
\* F(1) = 1, F(10) = 55), and the result does not overflow the integer type.
C28_FibonacciAgree ==
    (treq.tool = "calculate_fibonacci" /\ treq.arg >= 0 /\ treq.arg <= 40) =>
        /\ \A s \in Answered :
            /\ tres[s].kind = "ok"
            /\ tres[s].input = treq.arg
            /\ tres[s].server_type = s
            /\ tres[s].result >= 0 /\ tres[s].result <= MaxInt32
            /\ \A i \in DOMAIN FibLandmarks :
                treq.arg = FibLandmarks[i].n => tres[s].result = FibLandmarks[i].f
        /\ \A s1, s2 \in Answered : tres[s1].result = tres[s2].result

\* the three servers have answered n = 40
C28_Witness ==
    /\ treq = [tool |-> "calculate_fibonacci", arg |-> 40]
    /\ Answered = Servers
    /\ \A s \in Servers : tres[s].kind = "ok" /\ tres[s].result = 102334155


\* a value with every string at any depth upper-cased, keys and other values kept
RECURSIVE UpperCased(_)
UpperCased(v) ==
    CASE v.t = "string" -> VStr(ToUpper(v.s))
      [] v.t = "array" -> VArr([i \in DOMAIN v.el |-> UpperCased(v.el[i])])
      [] v.t = "object" -> VObj([i \in DOMAIN v.kv |-> <<v.kv[i][1], UpperCased(v.kv[i][2])>>])
      [] OTHER -> v

\* C29: for every input object the Go, Node.js and Java servers return the same
\* transformed_data, in which every string value at any depth (inside arrays and
\* inside objects in arrays too) is upper-cased and every key and other value is
\* unchanged.
C29_ProcessDataAgree ==
    treq.tool = "process_json_data" =>
        /\ \A s \in Answered :
            tres[s].kind = "ok" /\ tres[s].transformed_data = UpperCased(treq.arg)
        /\ \A s1, s2 \in Answered : tres[s1].transformed_data = tres[s2].transformed_data


\* the servers whose outbound GET got no response
GetFailedAt == {s \in Servers : treq.get[s].kind = "failed"}

\* C30: in every server, when the outbound GET of fetch_external_data fails at the
\* transport level the tool returns a success payload with an error field, the
\* url, status_code 0, response_time_ms and server_type, never a tool error.
C30_TransportFailureIsPayload ==
    treq.tool = "fetch_external_data" =>
        \A s \in Answered \cap GetFailedAt :
            /\ tres[s] # ToolError /\ tres[s].kind = "ok"
            /\ {"error", "url", "status_code", "response_time_ms", "server_type"}
                   \subseteq DOMAIN tres[s]
            /\ tres[s].error # ""
            /\ tres[s].url = treq.arg
            /\ tres[s].status_code = 0
            /\ tres[s].response_time_ms \in 0..MaxFetchMs
            /\ tres[s].server_type = s

C30_Witness ==
    /\ treq.tool = "fetch_external_data"
    /\ GetFailedAt = Servers /\ Answered = Servers
    /\ {treq.get[s].cause : s \in Servers} = TransportFailures
    /\ \A s \in Servers : tres[s].status_code = 0

\* v's session goes out of scope: the loop body or the tools/list block ends
ScopeEnds(v) == pc[v] \in {"next", "sleep"} /\ pc'[v] # pc[v]

\* C34: a virtual user has at most one open session: it sends a handshake only
\* while it holds no token, a session that was issued a token has sent the DELETE
\* with that token when it ends, before the next handshake, and the token is
\* dropped then, whatever the outcome of the DELETE.
C34_OneOpenSession ==
    /\ [](\A v \in VUs : pc[v] = "initialize" => sessionId[v] = NoTok /\ sent[v] = <<>>)
    /\ [][\A v \in VUs :
            ScopeEnds(v) =>
                /\ sessionId[v] # NoTok
                    => /\ Len(sent[v]) = 4
                       /\ sent[v][4] = [m |-> "DELETE", sid |-> sessionId[v]]
                       /\ delOutcome[v] \in DelKinds
                /\ sessionId'[v] = NoTok]_vars

C34_Witness ==
    /\ pc[1] = "next" /\ sessionId[1] = FreshToken(1)
    /\ Len(sent[1]) = 4 /\ sent[1][4] = [m |-> "DELETE", sid |-> FreshToken(1)]
    /\ delOutcome[1] = "connfail"

\* v's scenario session runs to its end: lines 126-134 and 183-190
SessionReturns(v) == pc[v] = "finish" /\ pc'[v] = "next"

\* the samples in the Trends of the four scenarios
ToolSamples ==
    trend["mcp_fibonacci_duration"] + trend["mcp_fetch_duration"]
    + trend["mcp_json_process_duration"] + trend["mcp_db_query_duration"]

\* C35: every mcpSession adds one sample to mcp_error_rate and increments
\* mcp_errors exactly when the sample is 'true'; every scenario session adds one
\* sample to mcp_initialize_duration, to its tool's Trend and to
\* mcp_full_session_duration and to no other Trend; so at any time, under any
\* interleaving, the sessions counted, the initialize samples and the samples of
\* the four tools together are equally many.
C35_OneSampleEach ==
    /\ [](/\ mcpErrors = mcpErrorRate.trues
          /\ mcpErrorRate.total = trend["mcp_full_session_duration"]
          /\ trend["mcp_full_session_duration"] = trend["mcp_initialize_duration"]
          /\ trend["mcp_initialize_duration"] = ToolSamples)
    /\ [][\A v \in VUs :
            SessionReturns(v) =>
                /\ mcpErrorRate'.total = mcpErrorRate.total + 1
                /\ mcpErrorRate'.trues - mcpErrorRate.trues = (IF marked'[v] THEN 1 ELSE 0)
                /\ mcpErrors' - mcpErrors = (IF marked'[v] THEN 1 ELSE 0)
                /\ \A n \in TrendNames :
                    trend'[n] = trend[n]
                        + (IF n \in {"mcp_initialize_duration", TOOLS[tool[v]].metric,
                                     "mcp_full_session_duration"} THEN 1 ELSE 0)]_vars

C35_Witness ==
    /\ verdict # "pending"
    /\ mcpErrors > 0 /\ mcpErrors < mcpErrorRate.total
    /\ mcpErrorRate.total = Len(TOOLS) * MaxIter * NumVUs
    /\ trend["mcp_db_query_duration"] = MaxIter * NumVUs

\* C36: the token of a session is bound once, at the handshake: the acknowledge,
\* the tools/call (tools/list) and the DELETE all carry exactly what the
\* initialize response returned, and an Mcp-Session-Id on the tools/call response
\* is never the one the DELETE carries.
C36_TokenBoundAtHandshake ==
    \A v \in VUs :
        /\ Len(sent[v]) >= 1 => sessionId[v] = InitToken(initOutcome[v], v)
        /\ \A i \in 2..Len(sent[v]) :
            /\ sent[v][i].sid = InitToken(initOutcome[v], v)
            /\ (sent[v][i].m = "DELETE" /\ callHeader[v] # NoTok)
                => sent[v][i].sid # callHeader[v]

C36_Witness ==
    /\ Len(sent[1]) = 4 /\ tool[1] # ListIdx
    /\ callHeader[1] = RotatedToken(1)
    /\ sent[1][2].sid = FreshToken(1) /\ sent[1][3].sid = FreshToken(1)
    /\ sent[1][4] = [m |-> "DELETE", sid |-> FreshToken(1)]

\* v's session has sent all it sends
SessionOver(v) == pc[v] \in {"finish", "next", "sleep"} /\ Len(sent[v]) >= 3

\* C37: a session sends a DELETE if and only if its handshake response issued a
\* token; a session without a token sends the acknowledge and the tools/call
\* (tools/list) with no Mcp-Session-Id header and ends after three requests.
C37_TeardownIffToken ==
    \A v \in VUs :
        LET issued == InitToken(initOutcome[v], v) # NoTok
            deleted == \E i \in 1..Len(sent[v]) : sent[v][i].m = "DELETE"
        IN /\ deleted => issued
           /\ SessionOver(v) => (deleted <=> issued)
           /\ (Len(sent[v]) >= 1 /\ ~issued)
                => /\ \A i \in 1..Len(sent[v]) : sent[v][i].sid = NoTok
                   /\ Len(sent[v]) <= 3

C37_Witness ==
    /\ pc[1] = "finish" /\ initOutcome[1] = "notoken"
    /\ callHeader[1] = RotatedToken(1)
    /\ Methods(sent[1]) = <<"initialize", "notifications/initialized", "tools/call">>
    /\ \A i \in 1..3 : sent[1][i].sid = NoTok

\* v sends the request of step `step` and gets past it
Sends(v, step) == pc[v] = step /\ pc'[v] # step /\ Len(sent'[v]) = Len(sent[v]) + 1

\* C38: http_reqs counts every request sent, the acknowledge and the DELETE as
\* well as the handshake and the tools/call (tools/list): four for every session;
\* a failed acknowledge or DELETE adds to http_req_failed like any failed request;
\* at the end total_requests and failed_requests of the summary are these counts,
\* and the run passes only if the failed ones stay under the ceiling.
C38_EveryRequestCounted ==
    /\ [](/\ verdict = "pending" => httpReqs = 4 * SessionsDone(1) + Len(sent[1])
          /\ httpFailed <= httpReqs
          /\ verdict # "pending"
                => /\ summary.http.total_requests = 4 * ListIdx * MaxIter
                   /\ summary.http.failed_requests = httpFailed
                   /\ (verdict = "passed") = RateBelowCeiling(httpFailed, httpReqs))
    /\ [][/\ \A step \in {"initialize", "notify", "call", "teardown"} :
                Sends(1, step) => httpReqs' = httpReqs + 1
          /\ Sends(1, "teardown")
                => httpFailed' = httpFailed + (IF delOutcome'[1] = "ok" THEN 0 ELSE 1)
          /\ Sends(1, "notify") => httpFailed' \in {httpFailed, httpFailed + 1}
          /\ (Sends(1, "initialize") \/ Sends(1, "call")) => httpFailed' = httpFailed]_vars

\* a run in which nothing but one acknowledge or DELETE failed, and which failed
C38_Witness ==
    /\ verdict = "failed"
    /\ summary.http.total_requests = 4 * ListIdx * MaxIter
    /\ summary.http.failed_requests >= 1
    /\ mcpErrors = 0

\* C39: the Go, Node.js and Java servers reject out-of-range arguments alike, as
\* an error without a payload and without doing the work: calculate_fibonacci
\* for n < 0 and n > 40, simulate_database_query for delay_ms < 0 and
\* delay_ms > 5000, where no sleep happens; 0, 40 and 5000 are accepted.
C39_OutOfRangeRejected ==
    /\ treq.tool = "calculate_fibonacci" =>
        \A s \in Answered :
            IF treq.arg < 0 \/ treq.arg > 40
            THEN tres[s] = ToolError
            ELSE tres[s].kind = "ok" /\ tres[s].input = treq.arg
    /\ treq.tool = "simulate_database_query" =>
        \A s \in Answered :
            IF treq.arg < 0 \/ treq.arg > 5000
            THEN tres[s] = DbRejected(0)
            ELSE /\ tres[s].kind = "ok" /\ tres[s].delay_ms = treq.arg
                 /\ tres[s].slept = treq.arg /\ tres[s].server_type = s

C39_Witness ==
    /\ treq.tool = "simulate_database_query" /\ treq.arg = 5001
    /\ Answered = Servers
    /\ \A s \in Servers : tres[s].kind = "error" /\ tres[s].slept = 0

\* the requests a transport or a server instance was constructed for
OwnersOf(o) == {r \in Reqs : o \in {conn[r].transport, conn[r].server}}

\* C31: the Node.js server constructs a new transport and a new server instance
\* for every POST /mcp, no instance serves two requests, and under any
\* interleaving whatever is written to the response of a request comes from that
\* request's own transport (or handler) and is the answer to that request.
C31_PerRequestIsolation ==
    /\ \A o \in ObjIds : Cardinality(OwnersOf(o)) <= 1
    /\ \A r \in Reqs : hpc[r] # "idle" => conn[r].transport # conn[r].server
    /\ \A t \in ObjIds : \A i, j \in RpcIds :
        (routes[t][i] # 0 /\ routes[t][j] # 0) => routes[t][i] = routes[t][j]
    /\ \A r \in Reqs : \A w \in resp[r].wrote :
        w.of = r /\ w.from \in {0, conn[r].transport}

C31_Witness ==
    /\ \A r \in Reqs : conn[r].rpc = 2 /\ conn[r].served
    /\ \A r \in Reqs : resp[r].wrote = {[from |-> conn[r].transport, of |-> r]}
    /\ Cardinality({conn[r].transport : r \in Reqs}) = MaxReqs

\* the transport and the server instance of r are closed
InstancesClosed(r) == {conn[r].transport, conn[r].server} \subseteq closedObj

\* C32: for every POST /mcp the Node.js server handles, once the response has
\* closed the transport and the server instance constructed for it are eventually
\* closed, also when the response closes before handleRequest returns and when
\* connect or handleRequest throws.
C32_EventuallyClosed ==
    \A r \in Reqs : (hpc[r] # "idle" /\ resp[r].closed) ~> InstancesClosed(r)

====
